---- MODULE Spec2Model ----
(***************************************************************************)
(* A model of commitBlogger: the token-bucket rate limiter and the         *)
(* generation client of transform.py, and the pipeline orchestrator of     *)
(* main.py with the ledger of ingest.py and the publish adapter of         *)
(* publisher.py.                                                           *)
(*                                                                         *)
(* The specifications of the module:                                       *)
(*   SpecLimiter  concurrent tasks calling _call_gemini_async on one       *)
(*                AsyncTokenRateLimiter, over a discrete clock;            *)
(*   SpecLimiterLive  the same on a bucket of one token, with the clock    *)
(*                advancing and the event loop resuming a task whose       *)
(*                sleep in consume is over;                                *)
(*   Spec         consecutive runs of run_pipeline over one commit list,   *)
(*                with the state file and the cache directory kept;        *)
(*   SpecDigest   one call of _summarize_diff_async over a list of         *)
(*                changed files;                                           *)
(*   SpecScenario one caller making consume calls in sequence on a limiter *)
(*                built with given constructor arguments;                  *)
(*   SpecDeploy   one call of Deployer.deploy, git command by git command; *)
(*   SpecLocalDigest  the local digest of one small patch;                 *)
(*   SpecTitle    the title of one event, from the title response to the   *)
(*                call of the publisher.                                   *)
(* Each specification leaves the others' variables unchanged.              *)
(***************************************************************************)
EXTENDS Integers, Sequences, FiniteSets, TLC

\* ------------------------------------------------------------------------
\* Bounds of the model
\* ------------------------------------------------------------------------
\* concurrent tasks sharing one limiter (asyncio.gather fan-out)
NTasks == 2
\* _call_gemini_async invocations made in all, by whichever task
MaxCalls == 2
\* the monotonic clock runs from 0 to MaxTime ticks
MaxTime == 2
\* the largest prompt cost (count_tokens_async result) a call can have
MaxUnits == 2

\* limiter configurations tried: capacity (tokens), refill (tokens per tick),
\* rpm delay (ticks, 60 / rpm_limit)
Capacities == {1, 2}
RefillRates == {1, 2}
RpmDelays == {1, 2}

Tasks == 1..NTasks
UnitChoices == 1..MaxUnits
NoTask == 0
\* before the clock's origin: no call yet
NoTime == 0 - 1

\* commits in the repository's history (the event list of every run)
NEvents == 3
\* consecutive runs of run_pipeline
MaxRuns == 2

\* the scenario's clock (seconds) and the consume calls its caller makes
MaxScenarioTime == 14
MaxScenarioCalls == 4

\* patches digested locally: up to MaxMixed lines of any kind followed by
\* up to MaxRun added lines
MaxMixed == 3
MaxRun == 11

\* lines of a title-generation response
MaxTitleLines == 3

\* events a caller of publish_post goes through
MaxPubEvents == 3
\* stop_after_attempt(5) of publish_post
PublishAttempts == 5

\* calls of _call_gemini_async made on one Transformer
MaxModelCalls == 3

\* changed files of one commit handed to _summarize_diff_async
MaxFiles == 3

\* characters of a commit sha, and of the short sha run_pipeline keys the
\* cache by (commit_data['sha'][:7])
ShaLen == 8
ShortShaLen == 7

Min(a, b) == IF a <= b THEN a ELSE b

VARIABLES
    \* ---- AsyncTokenRateLimiter (transform.py) ----
    capacity,           \* self.capacity
    refill_rate,        \* self.refill_rate_per_second, in tokens per tick
    rpm_delay,          \* self._rpm_delay, in ticks
    tokens,             \* self.tokens
    last_refill_time,   \* self.last_refill_time
    lock,               \* self._lock: the task holding it, or NoTask
    now,                \* time.monotonic(), in ticks
    \* ---- tasks running _call_gemini_async ----
    tpc,                \* where each task is
    tunits,             \* prompt_tokens.total_tokens of the task's current call
    tsleep,             \* when the task's current asyncio.sleep began
    trequired,          \* required_tokens of the task's latest consume (0: none)
    tcalls,             \* calls started so far, by all tasks
    lastCallStart,      \* when generate_content_async was last invoked
    prevCallStart,      \* and the invocation before that
    tattempts,          \* tenacity's attempt number of the task's current call
    returned,           \* how the latest _call_gemini_async call ended
    \* ---- the environment of run_pipeline (main.py) ----
    commits,            \* the repository's commits, as get_commits lists them
    notionConfigured,   \* config["notion_token"] and config["notion_database_id"]
    stateFile,          \* processed_state.json: the shas it lists
    cache,              \* generated_blogs/blog_<short>.md: content or NoFile
    \* ---- one run of run_pipeline ----
    run,                \* runs started so far
    mode,               \* "batch" or "incremental"
    pc,                 \* where the run is
    processed_shas,     \* ingester.processed_shas
    commits_to_process, \* what fetch_github_commits returned
    idx,                \* position of the for loop in commits_to_process
    aggregated_context, \* the context string, as its list of appended posts
    blog_post_content,  \* the primary content of the event being processed
    posts_were_published,
    pending,            \* sub-tasks handed to asyncio.gather and not finished
    \* ---- what happened, recorded for the properties ----
    outcome,            \* per position: how the event ended in this run
    primary,            \* per position: the event's primary content
    calls,              \* positions with a generation / consume / publish call
    atEvent,            \* ledger, cache, context when the latest event was reached
    passedContext,      \* aggregated_context given to the latest generation
    thisRun,            \* shas published, failed, generated in the run
    prevRun,            \* the same for the run before
    exportCalls,        \* export and deploy collaborators invoked, in order
    missing,            \* the required variable the run found unset, or NoVar
    \* ---- one call of _summarize_diff_async (transform.py) ----
    files_changed,      \* the changed-file records, in input order
    sstate,             \* per file: where its _summarize_single_file_async is
    summaries,          \* per file: what its task returned, or NoSection
    sorder,             \* the files in the order their tasks finished
    skeys,              \* per file: model keys _call_gemini_async was called with
    digest,             \* what _summarize_diff_async returned, or NoDigest
    \* ---- history of the scenario's consume calls ----
    forced,             \* per call: when it began, when it returned, if it slept
    \* ---- one call of Deployer.deploy (deployer.py) ----
    git_dir,            \* os.path.exists(<local_repo_path>/.git)
    dpc,                \* the git command deploy is about to run, or where it is
    dattempt,           \* the attempt of that command (tenacity)
    gitlog,             \* every subprocess.run executed so far, in order
    dresult,            \* what deploy returned, or "none"
    \* ---- the local digest of one small patch (transform.py) ----
    patch_lines,        \* the lines of the patch, each a sequence of characters
    local_summary,      \* the lines of the digest and its ellipsis, or NoSummary
    \* ---- the title of one event (transform.py, main.py) ----
    response_text,      \* the lines of what _call_gemini_async('title') returned
    blog_post_title,    \* what generate_click_worthy_title returned, or NoTitle
    title_step,         \* "gather", "publish" (about to call), "called"
    title_passed,       \* the title keyword of the publish_post call, or NoTitle
    \* ---- the calls of Publisher.publish_post by one caller (publisher.py) ----
    pub_caller,         \* who calls: run_pipeline or the publisher's test
    pub_idx,            \* the event the caller is at
    pub_pc,             \* "loop", "attempt" (in tenacity), "ended", "parked"
    pub_log,            \* what each attempt of the call under way came to
    pub_results,        \* per event: what its call returned or raised
    pub_invocations,    \* per event: calls of publish_post made for it
    pub_outcome,        \* per event: how run_pipeline ended it
    \* ---- the limiters of one Transformer (transform.py) ----
    model_configs,      \* per model key: the configured model name
    rate_limiters,      \* self.rate_limiters: per limiter its bucket
    debits              \* per _call_gemini_async call: key, bucket, tokens

limVars == <<capacity, refill_rate, rpm_delay, tokens, last_refill_time, lock,
             now, tpc, tunits, tsleep, trequired, tcalls, lastCallStart,
             prevCallStart, tattempts, returned>>

envVars == <<commits, notionConfigured, stateFile, cache>>

runVars == <<run, mode, pc, processed_shas, commits_to_process, idx,
             aggregated_context, blog_post_content, posts_were_published,
             pending>>

histVars == <<outcome, primary, calls, atEvent, passedContext, thisRun,
              prevRun, exportCalls>>

pipeVars == <<envVars, runVars, histVars, missing>>

digVars == <<files_changed, sstate, summaries, sorder, skeys, digest>>

depVars == <<git_dir, dpc, dattempt, gitlog, dresult>>

locVars == <<patch_lines, local_summary>>

titVars == <<response_text, blog_post_title, title_step, title_passed>>

pubVars == <<pub_caller, pub_idx, pub_pc, pub_log, pub_results,
             pub_invocations, pub_outcome>>

mapVars == <<model_configs, rate_limiters, debits>>

\* the variables of the specifications added after the deployer's
moreVars == <<locVars, titVars, pubVars, mapVars>>

baseVars == <<limVars, pipeVars, digVars, forced, depVars>>

\* what the actions of each of these specifications leave alone
notLocVars == <<baseVars, titVars, pubVars, mapVars>>
notTitVars == <<baseVars, locVars, pubVars, mapVars>>
notPubVars == <<baseVars, locVars, titVars, mapVars>>
notMapVars == <<baseVars, locVars, titVars, pubVars>>

sideVars == <<digVars, forced, depVars, moreVars>>

vars == <<limVars, pipeVars, sideVars>>

\* ------------------------------------------------------------------------
\* AsyncTokenRateLimiter
\* ------------------------------------------------------------------------

\* a refill that always fills the bucket
RefilledFull(tok, elapsed) == capacity

\* _refill: the bucket after `elapsed` ticks, capped at the capacity
Refilled(tok, elapsed) == Min(capacity, tok + elapsed * refill_rate)

\* a consume that polls at a fixed interval of one tick instead of sleeping
\* for the deficit
TpmSleepOverFixedPoll(elapsed, required) == elapsed >= 1

\* a consume that sleeps until the bucket holds the whole request
TpmSleepOverWhenCovered(elapsed, required) ==
    Refilled(tokens, elapsed) >= tokens + required

\* asyncio.sleep(wait_time) with wait_time = required / refill_rate is over
\* once at least wait_time has elapsed (the loop may resume the task later)
TpmSleepOver(elapsed, required) == elapsed * refill_rate >= required

\* a consume that goes ahead whoever holds the lock
LockIgnored(l) == TRUE

\* async with self._lock: the block is entered when no task holds the lock
LockFree(l) == l = NoTask

\* asyncio.sleep(self._rpm_delay) is over
RpmSleepOver(elapsed) == elapsed >= rpm_delay

\* generate_content_async is invoked by task t at the current time
InvokeGeneration(t) ==
    /\ tpc' = [tpc EXCEPT ![t] = "calling"]
    /\ prevCallStart' = lastCallStart
    /\ lastCallStart' = now

\* consume has returned for task t: enforce_rpm_delay follows without an
\* await in between; with no delay configured the call is made at once
EnforceRpmDelay(t) ==
    IF rpm_delay > 0
    THEN /\ tpc' = [tpc EXCEPT ![t] = "rpm_sleep"]
         /\ tsleep' = [tsleep EXCEPT ![t] = now]
         /\ UNCHANGED <<lastCallStart, prevCallStart>>
    ELSE /\ InvokeGeneration(t)
         /\ UNCHANGED tsleep

\* what model.generate_content_async(prompt) and response.text do: the text
\* is returned; BlockedPromptException is raised for a blocked prompt;
\* response.text raises ValueError (no valid part: stopped, malformed or
\* empty response); another exception (transport or service error)
ExternalOutcomes == {"text", "blocked", "no_text", "error"}

NoException == "none"

Raised(o) ==
    IF o = "blocked" THEN "BlockedPromptException"
    ELSE IF o = "no_text" THEN "ValueError"
    ELSE IF o = "error" THEN "Exception"
    ELSE NoException

\* isinstance(exc, cls): the three classes derive from Exception
IsInstance(exc, cls) == exc = cls \/ cls = "Exception"

\* a try statement that has lost its catch-all clause
ExceptClausesValueErrorOnly == <<"ValueError">>

\* the except clauses around the call, in order; both return ""
ExceptClauses == <<"ValueError", "Exception">>

\* the try statement of _call_gemini_async: response.text, or "" from the
\* first except clause that matches, or the exception leaves the function
CallBody(o) ==
    IF Raised(o) = NoException THEN "text"
    ELSE IF \E k \in 1..Len(ExceptClauses) : IsInstance(Raised(o), ExceptClauses[k])
         THEN ""
         ELSE Raised(o)

\* the @retry decorator: stop_after_attempt(3),
\* retry_if_exception_type(BlockedPromptException),
\* wait_exponential(multiplier=1, min=4, max=10), in seconds (one tick)
MaxAttempts == 3
RetryOn == "BlockedPromptException"
WaitMin == 4
WaitMax == 10

WaitExponential(attempt) ==
    LET exp == 2 ^ (attempt - 1) IN
    IF exp < WaitMin THEN WaitMin ELSE Min(exp, WaitMax)

\* tenacity after an attempt that yielded res: a returned value is passed
\* on; an exception of the retried type leads to another attempt, or to
\* RetryError once the attempts are used up; any other exception is
\* re-raised to the caller
AfterAttempt(res, attempt) ==
    IF res \in {"text", ""} THEN "return"
    ELSE IF ~IsInstance(res, RetryOn) THEN "raise"
    ELSE IF attempt < MaxAttempts THEN "retry"
    ELSE "raise"

NoReturn == [outcome |-> "none", attempts |-> 0, limited |-> FALSE,
             result |-> "none"]

LimInit ==
    /\ capacity \in Capacities
    /\ refill_rate \in RefillRates
    /\ rpm_delay \in RpmDelays
    /\ tokens = capacity
    /\ last_refill_time = 0
    /\ lock = NoTask
    /\ now = 0
    /\ tpc = [t \in Tasks |-> "idle"]
    /\ tunits = [t \in Tasks |-> 0]
    /\ tsleep = [t \in Tasks |-> 0]
    /\ trequired = [t \in Tasks |-> 0]
    /\ tcalls = 0
    /\ lastCallStart = NoTime
    /\ prevCallStart = NoTime
    /\ tattempts = [t \in Tasks |-> 0]
    /\ returned = NoReturn

\* a task enters _call_gemini_async and awaits count_tokens_async: a new
\* call (first attempt), or tenacity invoking the function again once the
\* backoff after a retried exception is over
StartCall(t) ==
    /\ tpc[t] \in {"idle", "backoff"}
    /\ IF tpc[t] = "idle"
       THEN /\ tcalls < MaxCalls
            /\ tcalls' = tcalls + 1
            /\ tattempts' = [tattempts EXCEPT ![t] = 1]
       ELSE /\ now - tsleep[t] >= WaitExponential(tattempts[t])
            /\ tattempts' = [tattempts EXCEPT ![t] = @ + 1]
            /\ UNCHANGED tcalls
    /\ tpc' = [tpc EXCEPT ![t] = "count"]
    /\ UNCHANGED <<pipeVars, sideVars, capacity, refill_rate, rpm_delay, tokens, last_refill_time,
                   lock, now, tunits, tsleep, trequired, lastCallStart,
                   prevCallStart, returned>>

\* count_tokens_async returns the prompt's cost and the task goes on to
\* limiter.consume
CountTokens(t) ==
    /\ tpc[t] = "count"
    /\ \E u \in UnitChoices : tunits' = [tunits EXCEPT ![t] = u]
    /\ tpc' = [tpc EXCEPT ![t] = "consume"]
    /\ UNCHANGED <<pipeVars, sideVars, capacity, refill_rate, rpm_delay, tokens, last_refill_time,
                   lock, now, tsleep, trequired, tcalls, lastCallStart,
                   prevCallStart,
                   tattempts, returned>>

\* count_tokens_async raises: the except clause logs and the call is made
\* without consume and without the rpm delay
CountTokensFails(t) ==
    /\ tpc[t] = "count"
    /\ InvokeGeneration(t)
    /\ UNCHANGED <<pipeVars, sideVars, capacity, refill_rate, rpm_delay, tokens, last_refill_time,
                   lock, now, tunits, tsleep, trequired, tcalls,
                   tattempts, returned>>

\* consume up to its first suspension: the lock is taken, the bucket
\* refilled; with enough tokens the debit follows at once and the lock is
\* released, otherwise the task sleeps holding the lock
ConsumeEnter(t) ==
    /\ tpc[t] = "consume"
    /\ LockFree(lock)
    /\ last_refill_time' = now
    /\ LET avail == Refilled(tokens, now - last_refill_time) IN
       IF tunits[t] > avail
       THEN /\ tokens' = avail
            /\ trequired' = [trequired EXCEPT ![t] = tunits[t] - avail]
            /\ tsleep' = [tsleep EXCEPT ![t] = now]
            /\ tpc' = [tpc EXCEPT ![t] = "tpm_sleep"]
            /\ lock' = t
            /\ UNCHANGED <<lastCallStart, prevCallStart>>
       ELSE /\ tokens' = avail - tunits[t]
            /\ trequired' = [trequired EXCEPT ![t] = 0]
            /\ lock' = NoTask
            /\ EnforceRpmDelay(t)
    /\ UNCHANGED <<pipeVars, sideVars, capacity, refill_rate, rpm_delay, now, tunits, tcalls,
                   tattempts, returned>>

\* consume after its sleep: refill again, debit, release the lock
ConsumeWake(t) ==
    /\ tpc[t] = "tpm_sleep"
    /\ TpmSleepOver(now - tsleep[t], trequired[t])
    /\ last_refill_time' = now
    /\ tokens' = Refilled(tokens, now - last_refill_time) - tunits[t]
    /\ lock' = NoTask
    /\ EnforceRpmDelay(t)
    /\ UNCHANGED <<pipeVars, sideVars, capacity, refill_rate, rpm_delay, now, tunits, trequired,
                   tcalls,
                   tattempts, returned>>

\* enforce_rpm_delay returns and generate_content_async is invoked
RpmWake(t) ==
    /\ tpc[t] = "rpm_sleep"
    /\ RpmSleepOver(now - tsleep[t])
    /\ InvokeGeneration(t)
    /\ UNCHANGED <<pipeVars, sideVars, capacity, refill_rate, rpm_delay, tokens, last_refill_time,
                   lock, now, tunits, tsleep, trequired, tcalls,
                   tattempts, returned>>

\* generate_content_async returns or raises: the try statement yields the
\* text, the empty text, or lets the exception out to tenacity, which
\* sleeps and calls again, or gives up, or lets it through to the caller
CallReturn(t) ==
    /\ tpc[t] = "calling"
    /\ \E o \in ExternalOutcomes :
         LET res == CallBody(o)
             next == AfterAttempt(res, tattempts[t])
         IN IF next = "retry"
            THEN /\ tpc' = [tpc EXCEPT ![t] = "backoff"]
                 /\ tsleep' = [tsleep EXCEPT ![t] = now]
                 /\ UNCHANGED <<tattempts, returned>>
            ELSE /\ tpc' = [tpc EXCEPT ![t] = "idle"]
                 /\ tsleep' = [tsleep EXCEPT ![t] = 0]
                 /\ tattempts' = [tattempts EXCEPT ![t] = 0]
                 /\ returned' = [outcome |-> o, attempts |-> tattempts[t],
                                 limited |-> tunits[t] > 0,
                                 result |-> IF next = "return" THEN res
                                            ELSE "raised"]
    /\ tunits' = [tunits EXCEPT ![t] = 0]
    /\ trequired' = [trequired EXCEPT ![t] = 0]
    /\ UNCHANGED <<pipeVars, sideVars, capacity, refill_rate, rpm_delay, tokens, last_refill_time,
                   lock, now, tcalls, lastCallStart, prevCallStart>>

\* the clock advances
Tick ==
    /\ now < MaxTime
    /\ now' = now + 1
    /\ UNCHANGED <<pipeVars, sideVars, capacity, refill_rate, rpm_delay, tokens, last_refill_time,
                   lock, tpc, tunits, tsleep, trequired, tcalls, lastCallStart,
                   prevCallStart,
                   tattempts, returned>>

\* ------------------------------------------------------------------------
\* A limiter built from constructor arguments, and one caller of consume
\* ------------------------------------------------------------------------

\* the constructor arguments of the scenario and the units of each call
Scenario ==
    [capacity |-> 10, refill_rate_per_minute |-> 10, rpm_limit |-> 60,
     tokens_to_consume |-> 4]

\* the clock counts seconds; token amounts are counted in fractions of a
\* token small enough for refill_rate_per_minute / 60.0 to be a whole
\* number of them per second (sixths of a token at 10 per minute)
TokenScale(per_minute) == 60 \div per_minute

\* the one task of the scenario
Caller == 1

\* __init__(capacity, refill_rate_per_minute, rpm_limit): the bucket starts
\* full
ScnInit ==
    /\ capacity = Scenario.capacity * TokenScale(Scenario.refill_rate_per_minute)
    /\ refill_rate = (Scenario.refill_rate_per_minute
                        * TokenScale(Scenario.refill_rate_per_minute)) \div 60
    /\ rpm_delay = IF Scenario.rpm_limit > 0 THEN 60 \div Scenario.rpm_limit
                   ELSE 0
    /\ tokens = capacity
    /\ last_refill_time = 0
    /\ lock = NoTask
    /\ now = 0
    /\ tpc = [t \in Tasks |-> "idle"]
    /\ tunits = [t \in Tasks |-> 0]
    /\ tsleep = [t \in Tasks |-> 0]
    /\ trequired = [t \in Tasks |-> 0]
    /\ tcalls = 0
    /\ lastCallStart = NoTime
    /\ prevCallStart = NoTime
    /\ tattempts = [t \in Tasks |-> 0]
    /\ returned = NoReturn
    /\ forced = <<>>

\* the caller awaits consume(tokens_to_consume): the lock is taken, the
\* bucket refilled; with enough tokens the debit follows and consume
\* returns at once, otherwise the caller sleeps holding the lock
ScenarioConsume ==
    /\ tpc[Caller] = "idle"
    /\ tcalls < MaxScenarioCalls
    /\ LockFree(lock)
    /\ tcalls' = tcalls + 1
    /\ last_refill_time' = now
    /\ LET units == Scenario.tokens_to_consume
                       * TokenScale(Scenario.refill_rate_per_minute)
           avail == Refilled(tokens, now - last_refill_time)
       IN /\ tunits' = [tunits EXCEPT ![Caller] = units]
          /\ IF units > avail
             THEN /\ tokens' = avail
                  /\ trequired' = [trequired EXCEPT ![Caller] = units - avail]
                  /\ tsleep' = [tsleep EXCEPT ![Caller] = now]
                  /\ tpc' = [tpc EXCEPT ![Caller] = "tpm_sleep"]
                  /\ lock' = Caller
                  /\ forced' = Append(forced, [start |-> now, end |-> NoTime,
                                               waited |-> TRUE])
             ELSE /\ tokens' = avail - units
                  /\ forced' = Append(forced, [start |-> now, end |-> now,
                                               waited |-> FALSE])
                  /\ UNCHANGED <<trequired, tsleep, tpc, lock>>
    /\ UNCHANGED <<pipeVars, digVars, depVars, moreVars, capacity, refill_rate, rpm_delay, now,
                   lastCallStart, prevCallStart, tattempts, returned>>

\* the caller's sleep is over: refill again, debit, release the lock, return
ScenarioWake ==
    /\ tpc[Caller] = "tpm_sleep"
    /\ TpmSleepOver(now - tsleep[Caller], trequired[Caller])
    /\ last_refill_time' = now
    /\ tokens' = Refilled(tokens, now - last_refill_time) - tunits[Caller]
    /\ lock' = NoTask
    /\ tpc' = [tpc EXCEPT ![Caller] = "idle"]
    /\ forced' = [forced EXCEPT ![Len(forced)].end = now]
    /\ UNCHANGED <<pipeVars, digVars, depVars, moreVars, capacity, refill_rate, rpm_delay, now,
                   tunits, tsleep, trequired, tcalls, lastCallStart,
                   prevCallStart, tattempts, returned>>

\* a second passes
ScenarioTick ==
    /\ now < MaxScenarioTime
    /\ now' = now + 1
    /\ UNCHANGED <<pipeVars, sideVars, capacity, refill_rate, rpm_delay, tokens,
                   last_refill_time, lock, tpc, tunits, tsleep, trequired,
                   tcalls, lastCallStart, prevCallStart, tattempts, returned>>

ScnNext ==
    \/ ScenarioConsume
    \/ ScenarioWake
    \/ ScenarioTick

LimNext ==
    \/ \E t \in Tasks : StartCall(t)
    \/ \E t \in Tasks : CountTokens(t)
    \/ \E t \in Tasks : CountTokensFails(t)
    \/ \E t \in Tasks : ConsumeEnter(t)
    \/ \E t \in Tasks : ConsumeWake(t)
    \/ \E t \in Tasks : RpmWake(t)
    \/ \E t \in Tasks : CallReturn(t)
    \/ Tick


\* ------------------------------------------------------------------------
\* The pipeline: values
\* ------------------------------------------------------------------------
Positions == 1..NEvents
Modes == {"batch", "incremental", "export"}
NoFile == "NoFile"
NoContent == "NoContent"

\* the sha of the i-th commit: commits 1 and 3 (2 and 4) differ in the last
\* character only, so their short shas are equal
Sha(i) ==
    [k \in 1..ShaLen |-> IF k = 1 THEN ((i - 1) % 2) + 1
                         ELSE IF k = ShaLen THEN ((i - 1) \div 2) + 1
                         ELSE 0]

\* commit_data['sha'][:7]
ShortSha(sha) == SubSeq(sha, 1, ShortShaLen)

Shorts == {ShortSha(Sha(i)) : i \in Positions}

\* commit messages: a sequence of lines, each a sequence of words
Messages ==
    { << <<"wip", "IGNORE">> >>,
      << <<"fix", "typo">>, <<"ignore", "this", "body">> >> }

\* a subject compared without lowering it first
LowerIdentity(w) == w

\* str.lower(), on the words above
Lower(w) == IF w = "IGNORE" THEN "ignore" ELSE w

\* commit_data['message'].splitlines()[0]
Subject(message) == message[1]

\* "ignore" in commit_message_subject.lower()
IsIgnored(e) ==
    \E k \in 1..Len(Subject(e.message)) : Lower(Subject(e.message)[k]) = "ignore"

\* posts found in the cache directory before the first run, and the text a
\* generation call returns when it returns any
InitialPosts == {"old_post_a", "old_post_b"}
GeneratedPosts == {"new_post"}

\* the keyword arguments run_pipeline passes to publish_post, and the
\* parameters publish_post declares
PublishCallKwargs == {"title", "content_md", "tags", "categories"}
PublishPostParams == {"title", "content_html", "tags", "categories", "status"}
PublishPostRequired == {"title", "content_html"}

\* Python binds a call's keyword arguments to the parameters of the callee
BindsTo(kwargs, params, required) ==
    kwargs \subseteq params /\ required \subseteq kwargs

\* what the WordPress client does with NewPost: returns a post id, raises
\* xmlrpc Fault on every attempt, or raises another exception
ExternalResults == {"post_id", "fault", "error"}

\* publish_post as run_pipeline calls it: a call that does not bind raises
\* TypeError before the body runs (tenacity retries only on Fault); else the
\* id, RetryError once tenacity has given up on Faults, or None
PublishPost(kwargs, ext) ==
    IF ~BindsTo(kwargs, PublishPostParams, PublishPostRequired) THEN "TypeError"
    ELSE IF ext = "post_id" THEN "post_id"
    ELSE IF ext = "fault" THEN "RetryError"
    ELSE "None"

\* if post_id: (reached only if publish_post returned)
Published(r) == r = "post_id"

\* the methods class Ingester defines
IngesterMethods ==
    {"_load_processed_shas", "_save_processed_shas", "_get_notion_page_title",
     "_get_github_repo", "_get_github_commit", "fetch_github_commits",
     "fetch_notion_notes", "get_processed_shas"}

\* a loop iteration that has lost its cache check
RouteIgnoringCache(e, cch) ==
    IF IsIgnored(e) THEN "ignored" ELSE "process"

\* the ignore check, then the cache check, of one loop iteration
Route(e, cch) ==
    IF IsIgnored(e) THEN "ignored"
    ELSE IF cch[ShortSha(e.sha)] # NoFile THEN "cache_hit"
    ELSE "process"

\* the cache file written before the result of publish_post is looked at
CacheOnPublishAlways(r, cch, short, content) ==
    [cch EXCEPT ![short] = content]

\* the cache file after the publish call: written on a post id only
CacheOnPublish(r, cch, short, content) ==
    IF Published(r) THEN [cch EXCEPT ![short] = content] ELSE cch

\* the post appended to the context whatever publish_post did
ContextOnPublishAlways(r, ctx, short, content) ==
    Append(ctx, <<short, content>>)

\* aggregated_context after the publish call: appended on a post id only
ContextOnPublish(r, ctx, short, content) ==
    IF Published(r) THEN Append(ctx, <<short, content>>) ELSE ctx

\* ingester.mark_as_processed(sha) after a post id: class Ingester has no
\* such method, the call raises AttributeError and the handler logs it
LedgerOnPublish(r, ledger, sha) ==
    IF Published(r) /\ "mark_as_processed" \in IngesterMethods
    THEN ledger \cup {sha}
    ELSE ledger

\* a fetch loop that skips nothing in either mode
FetchCandidatesAll(m, ledger) == commits

\* the commits the fetch loop does not skip: in incremental mode those whose
\* sha is not in processed_shas, in batch mode all
FetchCandidates(m, ledger) ==
    LET Kept(e) == ~(m # "batch" /\ e.sha \in ledger)
    IN SelectSeq(commits, Kept)

\* the commits whose details were fetched (the one whose get_commit raised
\* is logged and left out)
Fetched(candidates, failing) ==
    LET Ok(e) == e.sha # failing
    IN SelectSeq(candidates, Ok)

ShasOf(seq) == {seq[k].sha : k \in 1..Len(seq)}

NoSha == <<>>

\* the record of a run that has just started with `ledger` in the state file
NewRun(ledger) ==
    [ledger0 |-> ledger, published |-> {}, failed |-> {}, generated |-> {},
     clean |-> TRUE]

\* what is remembered of a run once the next one starts
Remembered(r) ==
    [published |-> r.published, failed |-> r.failed, clean |-> r.clean]

NoEvent ==
    [pos |-> 0, hadFile |-> FALSE, ledger |-> {}, file |-> {},
     cache |-> [s \in Shorts |-> NoFile], context |-> <<>>]

NoCalls ==
    [gen |-> {}, consume |-> {}, sub |-> {}, publish |-> {}, external |-> {}]

\* a fetch that restarts the set from the commits it returned
LedgerOnFetchReplacing(ledger, fetched) == ShasOf(fetched)

\* a fetch that leaves the marking of the commits to the caller
LedgerOnFetchUnchanged(ledger, fetched) == ledger

\* self.processed_shas.add(sha) for every commit appended to the result
LedgerOnFetch(ledger, fetched) == ledger \cup ShasOf(fetched)

\* a check that lets the empty text through
FalsyNever(text) == FALSE

\* if not blog_post_content:
Falsy(text) == text = ""

\* the body of publish_post ran, so client.call(NewPost(...)) was attempted
Attempted(r) == r # "TypeError"

\* the variables load_env_variables requires
RequiredVars ==
    {"github_token", "github_repo", "gemini_api_key", "wp_xmlrpc_url",
     "wp_username", "wp_app_password", "simply_static_export_path",
     "github_pages_repo_url"}

\* no required variable is unset
NoVar == "none"

\* a loader that logs the unset variable and goes on
LoadEnvVariablesLogOnly(unset) == "config"

\* load_env_variables: exit(1) at the first required variable that is
\* unset or empty, else the configuration is returned
LoadEnvVariables(unset) == IF unset \in RequiredVars THEN "exit" ELSE "config"

\* the coroutines run_pipeline gathers after the blog post is generated
SubTasks == {"title", "linkedin"}

\* a gather that returns as soon as one of its sub-tasks has finished
GatherReturnsOnFirst(p) == Cardinality(p) <= 1

\* await asyncio.gather(...) returns when no sub-task is left unfinished
GatherReturns(p) == p = {}

\* what trigger_simply_static_export and wait_for_export_completion do:
\* return True, return False, or raise
ExportResults == {"True", "False", "raised"}

\* an export phase entered whether or not a post was published
ExportWantedAlways(m, published) == TRUE

\* the export and deployment flow is run in export-only mode, and after the
\* loop of a generation run if posts_were_published
ExportWanted(m, published) == m = "export" \/ published

\* the collaborators the flow invokes, in order: with a trigger URL the
\* export is triggered and waited for, and deploy follows only if both
\* returned True; without one deploy is invoked directly
\* (each entry: the collaborator called, whether a trigger URL is
\* configured, and what the call did)
ExportCall(name, has_url, result) ==
    [call |-> name, url |-> has_url, result |-> result]

\* a flow that deploys whatever the wait returned
ExportFlowIgnoringWait(has_url, trig, wait) ==
    IF ~has_url THEN <<ExportCall("deploy", has_url, "none")>>
    ELSE IF trig # "True" THEN <<ExportCall("trigger", has_url, trig)>>
    ELSE <<ExportCall("trigger", has_url, trig),
           ExportCall("wait", has_url, wait),
           ExportCall("deploy", has_url, "none")>>

ExportFlow(has_url, trig, wait) ==
    IF ~has_url THEN <<ExportCall("deploy", has_url, "none")>>
    ELSE IF trig # "True" THEN <<ExportCall("trigger", has_url, trig)>>
    ELSE IF wait # "True"
    THEN <<ExportCall("trigger", has_url, trig),
           ExportCall("wait", has_url, wait)>>
    ELSE <<ExportCall("trigger", has_url, trig),
           ExportCall("wait", has_url, wait),
           ExportCall("deploy", has_url, "none")>>

\* ------------------------------------------------------------------------
\* The pipeline: run_pipeline
\* ------------------------------------------------------------------------
PipeInit ==
    /\ commits \in {[i \in Positions |-> [sha |-> Sha(i), message |-> msg[i]]] :
                      msg \in [Positions -> Messages]}
    /\ notionConfigured \in BOOLEAN
    /\ stateFile = {}
    /\ cache \in [Shorts -> {NoFile} \cup InitialPosts]
    /\ run = 0
    /\ mode = "incremental"
    /\ pc = "idle"
    /\ processed_shas = {}
    /\ commits_to_process = <<>>
    /\ idx = 1
    /\ aggregated_context = <<>>
    /\ blog_post_content = ""
    /\ posts_were_published = FALSE
    /\ pending = {}
    /\ outcome = [i \in Positions |-> "none"]
    /\ primary = [i \in Positions |-> NoContent]
    /\ calls = NoCalls
    /\ atEvent = NoEvent
    /\ passedContext = <<>>
    /\ thisRun = NewRun({})
    /\ prevRun = Remembered(NewRun({}))
    /\ exportCalls = <<>>
    /\ missing = NoVar

\* run_pipeline is started and loads its configuration first: with a
\* required variable unset the process exits there. Otherwise, in
\* export-only mode it goes to the export and deployment flow at once,
\* without an Ingester (such a run fetches nothing and is not a clean
\* fetch); in the other modes the Ingester loads the state file
StartRun ==
    /\ pc \in {"idle", "done", "crashed", "aborted"}
    /\ run < MaxRuns
    /\ run' = run + 1
    /\ mode' \in Modes
    /\ missing' \in {NoVar} \cup RequiredVars
    /\ pc' = IF LoadEnvVariables(missing') = "exit" THEN "aborted"
             ELSE IF mode' = "export" THEN "export" ELSE "fetch"
    /\ processed_shas' = IF pc' = "fetch" THEN stateFile ELSE {}
    /\ commits_to_process' = <<>>
    /\ idx' = 1
    /\ aggregated_context' = <<>>
    /\ blog_post_content' = ""
    /\ posts_were_published' = FALSE
    /\ pending' = {}
    /\ outcome' = [i \in Positions |-> "none"]
    /\ primary' = [i \in Positions |-> NoContent]
    /\ calls' = NoCalls
    /\ atEvent' = NoEvent
    /\ passedContext' = <<>>
    /\ prevRun' = Remembered(thisRun)
    /\ thisRun' = [NewRun(stateFile) EXCEPT !.clean = (pc' = "fetch")]
    /\ exportCalls' = <<>>
    /\ UNCHANGED <<limVars, sideVars, envVars>>

\* fetch_github_commits fails to get the repository: it returns [] and
\* run_pipeline returns ("No new commits to process")
FetchFails ==
    /\ pc = "fetch"
    /\ pc' = "done"
    /\ thisRun' = [thisRun EXCEPT !.clean = FALSE]
    /\ UNCHANGED <<limVars, sideVars, missing, envVars, run, mode, processed_shas,
                   commits_to_process, idx, aggregated_context,
                   blog_post_content, posts_were_published, pending, outcome, primary,
                   calls, atEvent, passedContext, prevRun, exportCalls>>

\* fetch_github_commits: every commit not skipped and fetched is appended
\* to the result and added to processed_shas, the set is saved, the list
\* returned; run_pipeline returns at once when the list is empty
FetchCommits ==
    /\ pc = "fetch"
    /\ \E failing \in ShasOf(commits) \cup {NoSha} :
         LET candidates == FetchCandidates(mode, processed_shas)
             fetched == Fetched(candidates, failing)
         IN /\ commits_to_process' = fetched
            /\ processed_shas' = LedgerOnFetch(processed_shas, fetched)
            /\ stateFile' = processed_shas'
            /\ pc' = IF fetched = <<>> THEN "done" ELSE "loop"
            /\ thisRun' = [thisRun EXCEPT
                              !.clean = failing \notin ShasOf(candidates)]
    /\ UNCHANGED <<limVars, sideVars, missing, commits, notionConfigured, cache, run, mode, idx,
                   aggregated_context, blog_post_content, posts_were_published, pending,
                   outcome, primary, calls, atEvent, passedContext, prevRun,
                   exportCalls>>

\* one loop iteration up to its first await: the ignore check, the cache
\* check, the lookup of the matching note. fetch_notion_notes returns a
\* list, so with Notion configured notion_notes_by_sha.get raises
\* AttributeError outside the try block and run_pipeline ends with it
HandleEvent ==
    /\ pc = "loop"
    /\ idx <= Len(commits_to_process)
    /\ LET e == commits_to_process[idx]
           short == ShortSha(e.sha)
           route == Route(e, cache)
       IN /\ atEvent' = [pos |-> idx, hadFile |-> cache[short] # NoFile,
                         ledger |-> processed_shas, file |-> stateFile,
                         cache |-> cache, context |-> aggregated_context]
          /\ IF route = "ignored"
             THEN /\ outcome' = [outcome EXCEPT ![idx] = "SKIPPED_IGNORED"]
                  /\ idx' = idx + 1
                  /\ UNCHANGED <<pc, primary, aggregated_context>>
             ELSE IF route = "cache_hit"
             THEN /\ outcome' = [outcome EXCEPT ![idx] = "CACHE_HIT"]
                  /\ primary' = [primary EXCEPT ![idx] = cache[short]]
                  /\ aggregated_context' =
                        Append(aggregated_context, <<short, cache[short]>>)
                  /\ idx' = idx + 1
                  /\ UNCHANGED pc
             ELSE /\ pc' = IF notionConfigured THEN "crashed" ELSE "generating"
                  /\ UNCHANGED <<outcome, primary, aggregated_context, idx>>
    /\ UNCHANGED <<limVars, sideVars, missing, envVars, run, mode, processed_shas,
                   commits_to_process, blog_post_content, posts_were_published, pending,
                   calls, passedContext, thisRun, prevRun, exportCalls>>

\* generate_blog_post returns: empty text abandons the event; otherwise the
\* title and LinkedIn coroutines are created and handed to asyncio.gather
GenerateBlog ==
    /\ pc = "generating"
    /\ \E text \in {""} \cup GeneratedPosts, consumed \in BOOLEAN :
         LET sha == commits_to_process[idx].sha
         IN /\ passedContext' = aggregated_context
            /\ calls' = [calls EXCEPT
                            !.gen = @ \cup {idx},
                            !.consume = IF consumed THEN @ \cup {idx} ELSE @,
                            !.sub = IF Falsy(text) THEN @ ELSE @ \cup {idx}]
            /\ thisRun' = [thisRun EXCEPT
                              !.generated = @ \cup {sha},
                              !.failed = IF Falsy(text) THEN @ \cup {sha} ELSE @]
            /\ IF Falsy(text)
               THEN /\ outcome' = [outcome EXCEPT ![idx] = "ABANDONED"]
                    /\ idx' = idx + 1
                    /\ pc' = "loop"
                    /\ UNCHANGED <<blog_post_content, primary, pending>>
               ELSE /\ blog_post_content' = text
                    /\ primary' = [primary EXCEPT ![idx] = text]
                    /\ pc' = "titling"
                    /\ pending' = {<<idx, name>> : name \in SubTasks}
                    /\ UNCHANGED <<outcome, idx>>
    /\ UNCHANGED <<limVars, sideVars, missing, envVars, run, mode, processed_shas,
                   commits_to_process, aggregated_context,
                   posts_were_published, atEvent, prevRun, exportCalls>>

\* one of the gathered sub-tasks finishes, in whatever order
SubTaskDone(name) ==
    /\ \E p \in Positions : <<p, name>> \in pending
    /\ pending' = {q \in pending : q[2] # name}
    /\ UNCHANGED <<limVars, sideVars, missing, envVars, run, mode, pc, processed_shas,
                   commits_to_process, idx, aggregated_context,
                   blog_post_content, posts_were_published, histVars>>

\* asyncio.gather(title_task, linkedin_task) returns once both have finished
TitleAndSummary ==
    /\ pc = "titling"
    /\ GatherReturns(pending)
    /\ pc' = "publishing"
    /\ UNCHANGED <<limVars, sideVars, missing, envVars, run, mode, processed_shas,
                   commits_to_process, idx, aggregated_context,
                   blog_post_content, posts_were_published, pending, histVars>>

\* publisher.publish_post is called; on a post id the post is cached, added
\* to the context and marked processed; an exception is logged by the
\* handler around the iteration; the loop goes on
PublishStep ==
    /\ pc = "publishing"
    /\ \E ext \in ExternalResults :
         LET e == commits_to_process[idx]
             short == ShortSha(e.sha)
             r == PublishPost(PublishCallKwargs, ext)
             ledger == LedgerOnPublish(r, processed_shas, e.sha)
         IN /\ calls' = [calls EXCEPT
                            !.publish = @ \cup {idx},
                            !.external = IF Attempted(r) THEN @ \cup {idx}
                                         ELSE @]
            /\ posts_were_published' = (posts_were_published \/ Published(r))
            /\ cache' = CacheOnPublish(r, cache, short, blog_post_content)
            /\ aggregated_context' =
                  ContextOnPublish(r, aggregated_context, short,
                                   blog_post_content)
            /\ processed_shas' = ledger
            /\ stateFile' = IF ledger # processed_shas THEN ledger ELSE stateFile
            /\ outcome' = [outcome EXCEPT
                              ![idx] = IF Published(r) THEN "PUBLISHED"
                                       ELSE "PUBLISH_FAILED"]
            /\ thisRun' = IF Published(r)
                          THEN [thisRun EXCEPT !.published = @ \cup {e.sha}]
                          ELSE [thisRun EXCEPT !.failed = @ \cup {e.sha}]
    /\ idx' = idx + 1
    /\ pc' = "loop"
    /\ UNCHANGED <<limVars, sideVars, missing, commits, notionConfigured, run, mode,
                   commits_to_process, blog_post_content, primary, atEvent,
                   passedContext, prevRun, exportCalls, pending>>

\* the for loop is exhausted
LoopEnd ==
    /\ pc = "loop"
    /\ idx > Len(commits_to_process)
    /\ pc' = "export"
    /\ UNCHANGED <<limVars, sideVars, missing, envVars, run, mode, processed_shas,
                   commits_to_process, idx, aggregated_context,
                   blog_post_content, posts_were_published, pending, histVars>>

\* the export and deployment phase: skipped unless a post was published in
\* this run (export-only mode always runs it); the collaborators invoked
\* are recorded in order
ExportPhase ==
    /\ pc = "export"
    /\ \E has_url \in BOOLEAN, trig \in ExportResults, wait \in ExportResults :
         exportCalls' = IF ExportWanted(mode, posts_were_published)
                        THEN ExportFlow(has_url, trig, wait)
                        ELSE <<>>
    /\ pc' = "done"
    /\ UNCHANGED <<limVars, sideVars, missing, envVars, run, mode, processed_shas,
                   commits_to_process, idx, aggregated_context,
                   blog_post_content, posts_were_published, pending, outcome, primary,
                   calls, atEvent, passedContext, thisRun, prevRun>>

PipeNext ==
    \/ StartRun
    \/ FetchFails
    \/ FetchCommits
    \/ HandleEvent
    \/ GenerateBlog
    \/ \E name \in SubTasks : SubTaskDone(name)
    \/ TitleAndSummary
    \/ PublishStep
    \/ LoopEnd
    \/ ExportPhase

\* the limiter at rest, for the pipeline's specification
LimParked ==
    /\ capacity = 1
    /\ refill_rate = 1
    /\ rpm_delay = 1
    /\ tokens = 1
    /\ last_refill_time = 0
    /\ lock = NoTask
    /\ now = 0
    /\ tpc = [t \in Tasks |-> "idle"]
    /\ tunits = [t \in Tasks |-> 0]
    /\ tsleep = [t \in Tasks |-> 0]
    /\ trequired = [t \in Tasks |-> 0]
    /\ tcalls = 0
    /\ lastCallStart = NoTime
    /\ prevCallStart = NoTime
    /\ tattempts = [t \in Tasks |-> 0]
    /\ returned = NoReturn

\* the pipeline at rest, for the limiter's specification
PipeParked ==
    /\ commits = <<>>
    /\ notionConfigured = FALSE
    /\ stateFile = {}
    /\ cache = [s \in Shorts |-> NoFile]
    /\ run = 0
    /\ mode = "incremental"
    /\ pc = "idle"
    /\ processed_shas = {}
    /\ commits_to_process = <<>>
    /\ idx = 1
    /\ aggregated_context = <<>>
    /\ blog_post_content = ""
    /\ posts_were_published = FALSE
    /\ pending = {}
    /\ outcome = [i \in Positions |-> "none"]
    /\ primary = [i \in Positions |-> NoContent]
    /\ calls = NoCalls
    /\ atEvent = NoEvent
    /\ passedContext = <<>>
    /\ thisRun = NewRun({})
    /\ prevRun = Remembered(NewRun({}))
    /\ exportCalls = <<>>
    /\ missing = NoVar

\* ------------------------------------------------------------------------
\* The diff summarizer: _summarize_diff_async
\* ------------------------------------------------------------------------

\* len(patch) > 1000 sends the patch to the 'summary' model
SummaryThreshold == 1000

\* patch lengths tried: no patch (missing or empty), at the threshold, over it
PatchLens == {0, SummaryThreshold, SummaryThreshold + 1}

\* a task that has not returned; _summarize_diff_async not yet returned
NoSection == [file |-> 0, kind |-> "none", text |-> ""]
NoDigest == [returned |-> FALSE, fixed_line |-> FALSE, sections |-> <<>>]

\* what _call_gemini_async('summary', ...) returns: a text, or "" on failure
SummaryTexts == {"", "summary_text"}

\* a summarizer that sends the patch at the threshold to the model as well
NeedsCallAtThreshold(file) == file.patch >= SummaryThreshold

\* if len(patch) > 1000 (reached only with a non-empty patch)
NeedsCall(file) == file.patch > SummaryThreshold

\* if not patch: file.get("patch", "") is empty or the key is missing
HasPatch(file) == file.patch > 0

\* the sections _summarize_single_file_async returns, each naming its file
Placeholder(file) == [file |-> file.filename, kind |-> "no_patch", text |-> ""]
LocalDigest(file) == [file |-> file.filename, kind |-> "local", text |-> ""]
GeneratedSummary(file, text) ==
    [file |-> file.filename, kind |-> "summary", text |-> text]

\* sections put together in the order in which the tasks finished
GatheredAsCompleted(results, order) ==
    [k \in 1..Len(order) |-> results[order[k]]]

\* summaries = await asyncio.gather(*tasks): the results in the order of
\* the tasks, whatever the order in which they finished
Gathered(results, order) == results

DigInit ==
    /\ files_changed \in
          UNION {{[i \in 1..n |-> [filename |-> i, patch |-> lens[i]]] :
                    lens \in [1..n -> PatchLens]} : n \in 0..MaxFiles}
    /\ sstate = [i \in 1..Len(files_changed) |-> "created"]
    /\ summaries = [i \in 1..Len(files_changed) |-> NoSection]
    /\ sorder = <<>>
    /\ skeys = [i \in 1..Len(files_changed) |-> <<>>]
    /\ digest = NoDigest

\* the event loop starts the task of file i (tasks start in the order
\* gather was given them) and runs it to its first await: without patch and
\* with a small patch the task finishes at once, with a large patch it
\* calls _call_gemini_async under the 'summary' key and waits
SummarizeFile(i) ==
    /\ digest = NoDigest
    /\ i \in 1..Len(files_changed)
    /\ sstate[i] = "created"
    /\ \A j \in 1..(i - 1) : sstate[j] # "created"
    /\ LET file == files_changed[i] IN
       IF ~HasPatch(file)
       THEN /\ summaries' = [summaries EXCEPT ![i] = Placeholder(file)]
            /\ sstate' = [sstate EXCEPT ![i] = "done"]
            /\ sorder' = Append(sorder, i)
            /\ UNCHANGED skeys
       ELSE IF NeedsCall(file)
       THEN /\ skeys' = [skeys EXCEPT ![i] = Append(@, "summary")]
            /\ sstate' = [sstate EXCEPT ![i] = "calling"]
            /\ UNCHANGED <<summaries, sorder>>
       ELSE /\ summaries' = [summaries EXCEPT ![i] = LocalDigest(file)]
            /\ sstate' = [sstate EXCEPT ![i] = "done"]
            /\ sorder' = Append(sorder, i)
            /\ UNCHANGED skeys
    /\ UNCHANGED <<limVars, pipeVars, forced, depVars, moreVars, files_changed, digest>>

\* the generation call of file i returns and its task finishes
SummaryReturns(i) ==
    /\ i \in 1..Len(files_changed)
    /\ sstate[i] = "calling"
    /\ \E text \in SummaryTexts :
         summaries' = [summaries EXCEPT
                          ![i] = GeneratedSummary(files_changed[i], text)]
    /\ sstate' = [sstate EXCEPT ![i] = "done"]
    /\ sorder' = Append(sorder, i)
    /\ UNCHANGED <<limVars, pipeVars, forced, depVars, moreVars, files_changed, skeys, digest>>

\* _summarize_diff_async returns: the fixed line for an empty list, else
\* the gathered sections joined, once every task has finished
DigestReturns ==
    /\ digest = NoDigest
    /\ \A i \in 1..Len(files_changed) : sstate[i] = "done"
    /\ digest' = IF files_changed = <<>>
                 THEN [returned |-> TRUE, fixed_line |-> TRUE,
                       sections |-> <<>>]
                 ELSE [returned |-> TRUE, fixed_line |-> FALSE,
                       sections |-> Gathered(summaries, sorder)]
    /\ UNCHANGED <<limVars, pipeVars, forced, depVars, moreVars, files_changed, sstate, summaries, sorder,
                   skeys>>

DigNext ==
    \/ \E i \in 1..MaxFiles : SummarizeFile(i)
    \/ \E i \in 1..MaxFiles : SummaryReturns(i)
    \/ DigestReturns

\* the summarizer at rest, for the other specifications
DigParked ==
    /\ files_changed = <<>>
    /\ sstate = <<>>
    /\ summaries = <<>>
    /\ sorder = <<>>
    /\ skeys = <<>>
    /\ digest = NoDigest

\* no scenario call made
ScnParked == forced = <<>>

\* ------------------------------------------------------------------------
\* The deployer: Deployer.deploy
\* ------------------------------------------------------------------------

\* stop_after_attempt(3) on _run_git_command
GitAttempts == 3

\* what subprocess.run does with a git command: exits with 0, exits with
\* another code (check=True raises CalledProcessError), or git is not found
GitResults == {"ok", "CalledProcessError", "FileNotFoundError"}

\* the stdout of git status --porcelain: nothing, or the changed paths
StatusOutputs == {"", "M some_file.txt"}

\* a helper that returns normally once its attempts are used up
RunGitCommandSwallowing(res, attempt) ==
    IF res = "CalledProcessError" /\ attempt < GitAttempts THEN "retry"
    ELSE "return"

\* _run_git_command under tenacity: the result is returned; on
\* CalledProcessError the command is run again, until the third attempt,
\* after which tenacity raises RetryError; any other exception gets out
RunGitCommand(res, attempt) ==
    IF res = "ok" THEN "return"
    ELSE IF res = "CalledProcessError"
    THEN IF attempt < GitAttempts THEN "retry" ELSE "RetryError"
    ELSE res

\* a status check that never finds the tree clean
IsBlankNever(out) == FALSE

\* if not status_stdout.strip():
IsBlank(out) == out = ""

\* where deploy goes once the command cmd has returned; "True" is deploy
\* returning True
AfterCommand(cmd, out) ==
    CASE cmd = "init" -> "remote_add"
      [] cmd = "remote_add" -> "checkout"
      [] cmd = "set_url" -> "checkout"
      [] cmd = "checkout" -> "add"
      [] cmd = "add" -> "status"
      [] cmd = "status" -> IF IsBlank(out) THEN "True" ELSE "commit"
      [] cmd = "commit" -> "push"
      [] cmd = "push" -> "True"

\* where deploy goes once the command cmd has raised exc: the handler
\* around remote set-url catches CalledProcessError only and goes on to the
\* checkout; everything else ends in one of the handlers that return False
AfterRaise(cmd, exc) ==
    IF cmd = "set_url" /\ IsInstance(exc, "CalledProcessError")
    THEN "checkout"
    ELSE "False"

DepInit ==
    /\ git_dir \in BOOLEAN
    /\ dpc = "start"
    /\ dattempt = 0
    /\ gitlog = <<>>
    /\ dresult = "none"

\* deploy calls initialize_repo, which looks for the .git directory
InitializeRepo ==
    /\ dpc = "start"
    /\ dpc' = IF git_dir THEN "set_url" ELSE "init"
    /\ dattempt' = 1
    /\ UNCHANGED <<limVars, pipeVars, digVars, forced, moreVars, git_dir, gitlog, dresult>>

\* one attempt of the git command at hand, and what deploy does with it
RunGit ==
    /\ dpc \notin {"start", "returned"}
    /\ \E res \in GitResults, out \in StatusOutputs :
         /\ (dpc = "status" /\ res = "ok") \/ out = ""
         /\ gitlog' = Append(gitlog, [cmd |-> dpc, attempt |-> dattempt,
                                      result |-> res, out |-> out])
         /\ LET how == RunGitCommand(res, dattempt)
                then == IF how = "return" THEN AfterCommand(dpc, out)
                        ELSE AfterRaise(dpc, how)
            IN IF how = "retry"
               THEN /\ dattempt' = dattempt + 1
                    /\ UNCHANGED <<dpc, dresult>>
               ELSE IF then \in {"True", "False"}
               THEN /\ dresult' = then
                    /\ dpc' = "returned"
                    /\ dattempt' = 0
               ELSE /\ dpc' = then
                    /\ dattempt' = 1
                    /\ UNCHANGED dresult
    /\ UNCHANGED <<limVars, pipeVars, digVars, forced, moreVars, git_dir>>

DepNext ==
    \/ InitializeRepo
    \/ RunGit

\* no deployment under way, for the other specifications
DepParked ==
    /\ git_dir = FALSE
    /\ dpc = "start"
    /\ dattempt = 0
    /\ gitlog = <<>>
    /\ dresult = "none"

\* ------------------------------------------------------------------------
\* The local digest of a small patch: _summarize_single_file_async, else
\* branch
\* ------------------------------------------------------------------------

\* relevant_lines[:10]
DigestLimit == 10

\* the lines a patch is made of, as sequences of characters: an added, a
\* removed and a context line, the two file-header lines, a hunk header
LineTexts ==
    {<<"+", "x">>, <<"-", "x">>, <<" ", "x">>,
     <<"+", "+", "+", " ", "b">>, <<"-", "-", "-", " ", "a">>,
     <<"@", "@">>}

NoSummary == [returned |-> FALSE, lines |-> <<>>, ellipsis |-> FALSE]

\* line.startswith(prefix)
StartsWith(line, prefix) ==
    /\ Len(line) >= Len(prefix)
    /\ SubSeq(line, 1, Len(prefix)) = prefix

\* a filter that keeps the file-header lines
RelevantWithHeaders(line) ==
    StartsWith(line, <<"+">>) \/ StartsWith(line, <<"-">>)

\* line.startswith(("+", "-")) and not line.startswith(("+++", "---"))
Relevant(line) ==
    /\ StartsWith(line, <<"+">>) \/ StartsWith(line, <<"-">>)
    /\ ~(StartsWith(line, <<"+", "+", "+">>)
           \/ StartsWith(line, <<"-", "-", "-">>))

\* the else branch: the relevant lines of patch.split("\n"), the first
\* ten of them, "..." appended if there were more
LocalSummary(lines) ==
    LET relevant_lines == SelectSeq(lines, Relevant)
    IN [returned |-> TRUE,
        lines |-> SubSeq(relevant_lines, 1,
                         Min(Len(relevant_lines), DigestLimit)),
        ellipsis |-> Len(relevant_lines) > DigestLimit]

\* a non-empty patch under the size threshold
LocInit ==
    /\ patch_lines \in
          UNION {{mixed \o [k \in 1..r |-> <<"+", "x">>] :
                    mixed \in [1..n -> LineTexts]} :
                       n \in 0..MaxMixed, r \in 0..MaxRun}
    /\ patch_lines # <<>>
    /\ local_summary = NoSummary

\* _summarize_single_file_async returns the digest
DigestLocally ==
    /\ patch_lines # <<>>
    /\ ~local_summary.returned
    /\ local_summary' = LocalSummary(patch_lines)
    /\ UNCHANGED <<notLocVars, patch_lines>>

LocNext == DigestLocally

\* no patch at hand, for the other specifications
LocParked ==
    /\ patch_lines = <<>>
    /\ local_summary = NoSummary

\* ------------------------------------------------------------------------
\* The title: generate_click_worthy_title and the publish call
\* ------------------------------------------------------------------------

\* the lines a title response is made of: empty, blank, titles with and
\* without blanks around and inside
TitleLines ==
    {<<>>, <<" ">>, <<"T">>, <<" ", "T", " ">>, <<"U">>, <<"T", " ", "U">>}

NoTitle == <<"NoTitle">>
DefaultTitle == <<"Default Blog Post Title">>

\* t.strip(): the line without its leading and trailing blanks
RECURSIVE LStrip(_)
LStrip(t) == IF t # <<>> /\ Head(t) = " " THEN LStrip(Tail(t)) ELSE t
RECURSIVE RStrip(_)
RStrip(t) ==
    IF t # <<>> /\ t[Len(t)] = " " THEN RStrip(SubSeq(t, 1, Len(t) - 1))
    ELSE t
Strip(t) == RStrip(LStrip(t))

\* a title function without the default
ClickWorthyTitleNoDefault(response) ==
    LET stripped == [k \in 1..Len(response) |-> Strip(response[k])]
        NonEmpty(t) == t # <<>>
        titles == SelectSeq(stripped, NonEmpty)
    IN IF titles # <<>> THEN titles[1] ELSE <<>>

\* titles = [t.strip() for t in response_text.split("\n") if t.strip()]
\* return titles[0] if titles else "Default Blog Post Title"
ClickWorthyTitle(response) ==
    LET stripped == [k \in 1..Len(response) |-> Strip(response[k])]
        NonEmpty(t) == t # <<>>
        titles == SelectSeq(stripped, NonEmpty)
    IN IF titles # <<>> THEN titles[1] ELSE DefaultTitle

\* the primary content is non-empty and the title and summary coroutines
\* have been handed to asyncio.gather; the title response is any text
\* (_call_gemini_async returns "" on failure: one empty line)
TitInit ==
    /\ response_text \in
          UNION {[1..n -> TitleLines] : n \in 1..MaxTitleLines}
    /\ blog_post_title = NoTitle
    /\ title_step = "gather"
    /\ title_passed = NoTitle

\* asyncio.gather returns the title and the summary
GatherTitle ==
    /\ title_step = "gather"
    /\ blog_post_title' = ClickWorthyTitle(response_text)
    /\ title_step' = "publish"
    /\ UNCHANGED <<notTitVars, response_text, title_passed>>

\* publisher.publish_post(title=blog_post_title, ...) is called, whatever
\* the title
CallPublishPost ==
    /\ title_step = "publish"
    /\ title_passed' = blog_post_title
    /\ title_step' = "called"
    /\ UNCHANGED <<notTitVars, response_text, blog_post_title>>

TitNext ==
    \/ GatherTitle
    \/ CallPublishPost

\* no title under way, for the other specifications
TitParked ==
    /\ response_text = <<>>
    /\ blog_post_title = NoTitle
    /\ title_step = "gather"
    /\ title_passed = NoTitle

\* ------------------------------------------------------------------------
\* Publisher.publish_post under tenacity, and the caller's loop
\* ------------------------------------------------------------------------

\* run_pipeline's loop, and the publisher's test, which passes the title
\* and the content by position
PubCallers == {"run_pipeline", "test_publish_post"}

KwargsOf(caller) ==
    IF caller = "run_pipeline" THEN PublishCallKwargs
    ELSE {"title", "content_html"}

\* a stop condition that never stops
StopNever(attempt) == FALSE

\* stop=stop_after_attempt(5)
StopAfterAttempt(attempt) == attempt >= PublishAttempts

\* retry=retry_if_exception_type(xmlrpc_client.Fault)
RetryIfFault(exc) == exc = "Fault"

\* the body of publish_post: the id the client returned; Fault is logged
\* and raised again; any other exception is logged and None returned
PublishBody(ext) ==
    IF ext = "post_id" THEN "post_id"
    ELSE IF ext = "fault" THEN "Fault"
    ELSE "None"

\* run_pipeline after the call: if post_id: ... else / except Exception
HandlerOutcome(r) == IF Published(r) THEN "PUBLISHED" ELSE "PUBLISH_FAILED"

PubEvents == 1..MaxPubEvents

PubInit ==
    /\ pub_caller \in PubCallers
    /\ pub_idx = 1
    /\ pub_pc = "loop"
    /\ pub_log = <<>>
    /\ pub_results = [i \in PubEvents |-> "none"]
    /\ pub_invocations = [i \in PubEvents |-> 0]
    /\ pub_outcome = [i \in PubEvents |-> "none"]

\* the caller calls publish_post for the event it is at; a call that does
\* not bind raises TypeError before the body runs
InvokePublishPost ==
    /\ pub_pc = "loop"
    /\ pub_idx \in PubEvents
    /\ pub_invocations' =
          [pub_invocations EXCEPT ![pub_idx] = pub_invocations[pub_idx] + 1]
    /\ pub_log' = <<>>
    /\ IF BindsTo(KwargsOf(pub_caller), PublishPostParams, PublishPostRequired)
       THEN /\ pub_pc' = "attempt"
            /\ UNCHANGED pub_results
       ELSE /\ pub_pc' = "ended"
            /\ pub_results' = [pub_results EXCEPT ![pub_idx] = "TypeError"]
    /\ UNCHANGED <<notPubVars, pub_caller, pub_idx, pub_outcome>>

\* tenacity runs the body once more: a return value is returned; a Fault
\* is retried after the wait unless the stop condition holds, and then
\* RetryError is raised
AttemptPublish ==
    /\ pub_pc = "attempt"
    /\ \E ext \in ExternalResults :
          LET out == PublishBody(ext)
              log == Append(pub_log, out)
          IN /\ pub_log' = log
             /\ IF RetryIfFault(out)
                THEN IF StopAfterAttempt(Len(log))
                     THEN /\ pub_pc' = "ended"
                          /\ pub_results' =
                                [pub_results EXCEPT ![pub_idx] = "RetryError"]
                     ELSE /\ pub_pc' = "attempt"
                          /\ UNCHANGED pub_results
                ELSE /\ pub_pc' = "ended"
                     /\ pub_results' = [pub_results EXCEPT ![pub_idx] = out]
    /\ UNCHANGED <<notPubVars, pub_caller, pub_idx, pub_invocations,
                   pub_outcome>>

\* the call has returned or raised: run_pipeline records how the event
\* ended and its loop goes to the next event
AfterPublishPost ==
    /\ pub_pc = "ended"
    /\ pub_outcome' =
          IF pub_caller = "run_pipeline"
          THEN [pub_outcome EXCEPT ![pub_idx] =
                                      HandlerOutcome(pub_results[pub_idx])]
          ELSE pub_outcome
    /\ pub_idx' = pub_idx + 1
    /\ pub_pc' = "loop"
    /\ UNCHANGED <<notPubVars, pub_caller, pub_log, pub_results,
                   pub_invocations>>

PubNext ==
    \/ InvokePublishPost
    \/ AttemptPublish
    \/ AfterPublishPost

\* no caller of publish_post, for the other specifications
PubParked ==
    /\ pub_caller = "none"
    /\ pub_idx = 1
    /\ pub_pc = "parked"
    /\ pub_log = <<>>
    /\ pub_results = <<>>
    /\ pub_invocations = <<>>
    /\ pub_outcome = <<>>

\* ------------------------------------------------------------------------
\* The limiters of a Transformer: __init__ and _call_gemini_async
\* ------------------------------------------------------------------------

\* the keys of model_configs, in the order load_env_variables lists them
KeyOrder == <<"blog", "summary", "linkedin", "title">>
ModelKeys == {KeyOrder[k] : k \in 1..Len(KeyOrder)}

\* the model names a key can be configured with (the defaults; each can be
\* overridden by its GEMINI_*_MODEL variable)
ModelNames == {"gemini-2.5-flash", "gemini-2.5-flash-lite", "gemma-3-27b-it"}

\* the names and the tpm settings without any GEMINI_* variable set
DefaultConfigs ==
    [k \in ModelKeys |->
        IF k \in {"blog", "linkedin"} THEN "gemini-2.5-flash"
        ELSE IF k = "summary" THEN "gemini-2.5-flash-lite"
        ELSE "gemma-3-27b-it"]
DefaultTpm ==
    [k \in ModelKeys |-> IF k = "title" THEN 15000 ELSE 250000]

\* the tokens count_tokens_async reports for a prompt
PromptTokens == {1000}

\* no limiter was found for the model
NoBucket == "none"

\* a limiter for every model key
LimiterIdPerKey(key, name) == key

\* self.rate_limiters[model_name]: a limiter is identified by the model
\* name, in __init__ and in the lookup of _call_gemini_async
LimiterId(key, name) == name

\* config = next(cfg for cfg in model_configs.values() if cfg['name'] ==
\* model_name): the first key, in dictionary order, of the limiter
FirstKeyOf(id, cfgs) ==
    LET ks == {k \in 1..Len(KeyOrder) :
                  LimiterId(KeyOrder[k], cfgs[KeyOrder[k]]) = id}
    IN KeyOrder[CHOOSE k \in ks : \A j \in ks : k <= j]

\* the loop of __init__ over unique_model_names: a full bucket of the tpm
\* of that configuration
RateLimiters(cfgs) ==
    [id \in {LimiterId(k, cfgs[k]) : k \in ModelKeys} |->
        [capacity |-> DefaultTpm[FirstKeyOf(id, cfgs)],
         tokens |-> DefaultTpm[FirstKeyOf(id, cfgs)]]]

MapInit ==
    /\ model_configs \in [ModelKeys -> ModelNames]
    /\ rate_limiters = RateLimiters(model_configs)
    /\ debits = <<>>

\* _call_gemini_async(model_key, prompt): if model.model_name, the name
\* the SDK's model object reports, is a key of self.rate_limiters, the
\* prompt's tokens are consumed from that limiter; otherwise the call goes
\* on without a limiter
CallGemini(key) ==
    /\ Len(debits) < MaxModelCalls
    /\ \E found \in BOOLEAN, units \in PromptTokens :
          LET id == LimiterId(key, model_configs[key])
          IN IF found /\ id \in DOMAIN rate_limiters
             THEN /\ units <= rate_limiters[id].tokens
                  /\ rate_limiters' =
                        [rate_limiters EXCEPT ![id].tokens = @ - units]
                  /\ debits' = Append(debits, [key |-> key, bucket |-> id,
                                               units |-> units])
             ELSE /\ debits' = Append(debits, [key |-> key,
                                               bucket |-> NoBucket,
                                               units |-> 0])
                  /\ UNCHANGED rate_limiters
    /\ UNCHANGED <<notMapVars, model_configs>>

MapNext == \E key \in ModelKeys : CallGemini(key)

\* no Transformer, for the other specifications
MapParked ==
    /\ model_configs = <<>>
    /\ rate_limiters = <<>>
    /\ debits = <<>>

MoreParked == LocParked /\ TitParked /\ PubParked /\ MapParked

\* everything at rest but the specifications that came after the deployer's
BaseParked ==
    LimParked /\ PipeParked /\ DigParked /\ ScnParked /\ DepParked

SideParked == DigParked /\ ScnParked /\ DepParked /\ MoreParked

\* the state before the first run: the commit list, the configuration and
\* the cache directory are inputs
Init == LimParked /\ PipeInit /\ SideParked

Spec == Init /\ [][PipeNext]_vars

\* a fresh limiter with a full bucket and idle tasks
LimiterInit == LimInit /\ PipeParked /\ SideParked

SpecLimiter == LimiterInit /\ [][LimNext]_vars

\* time passes, and asyncio resumes a task whose sleep in consume has ended
LimiterFairness ==
    /\ WF_vars(Tick)
    /\ \A t \in Tasks : WF_vars(ConsumeWake(t))

\* a limiter whose bucket holds one token and refills two per tick, so
\* that a call of two units exceeds the capacity and a call made after it
\* finds the bucket in deficit and still wakes within the clock's range
LimiterLiveInit ==
    /\ LimiterInit
    /\ capacity = 1
    /\ refill_rate = 2
    /\ rpm_delay = 1

SpecLimiterLive == LimiterLiveInit /\ [][LimNext]_vars /\ LimiterFairness

\* a call of _summarize_diff_async about to create its tasks
DigestInit ==
    LimParked /\ PipeParked /\ DigInit /\ ScnParked /\ DepParked /\ MoreParked

SpecDigest == DigestInit /\ [][DigNext]_vars

\* the scenario's limiter just built, its caller about to call
ScenarioInit == ScnInit /\ PipeParked /\ DigParked /\ DepParked /\ MoreParked

SpecScenario == ScenarioInit /\ [][ScnNext]_vars

\* deploy has just been called
DeployInit ==
    LimParked /\ PipeParked /\ DigParked /\ ScnParked /\ DepInit /\ MoreParked

SpecDeploy == DeployInit /\ [][DepNext]_vars

\* a small patch about to be digested
LocalDigestInit ==
    BaseParked /\ LocInit /\ TitParked /\ PubParked /\ MapParked

SpecLocalDigest == LocalDigestInit /\ [][LocNext]_vars

\* an event whose title is being generated
TitleInit == BaseParked /\ LocParked /\ TitInit /\ PubParked /\ MapParked

SpecTitle == TitleInit /\ [][TitNext]_vars

\* a caller about to publish its first event
PublishInit ==
    BaseParked /\ LocParked /\ TitParked /\ PubInit /\ MapParked

SpecPublish == PublishInit /\ [][PubNext]_vars

\* a Transformer just built
LimitersInit ==
    BaseParked /\ LocParked /\ TitParked /\ PubParked /\ MapInit

SpecLimiters == LimitersInit /\ [][MapNext]_vars

\* ------------------------------------------------------------------------
\* Claims about the rate limiter (checked under SpecLimiter)
\* ------------------------------------------------------------------------

\* C1: whenever no consume call is in progress (every consume call made so
\* far has returned), the bucket holds between 0 and capacity tokens, for
\* any positive units, units above the capacity included.
C1_TokensWithinBucket ==
    (lock = NoTask) => (0 <= tokens /\ tokens <= capacity)

\* C2: any two consecutive invocations of the external generation call on
\* one model identity start at least 60 / rpm_limit (rpm_delay) apart, also
\* when concurrent tasks share the limiter.
C2_MinCallSpacing ==
    (prevCallStart # NoTime) => (lastCallStart - prevCallStart >= rpm_delay)

\* C3: a consume call that finds fewer tokens than its units after the
\* refill suspends, and debits and returns only once at least
\* (units - available) / refill_rate has elapsed; a call that finds enough
\* tokens debits and returns in the same step, with no time passing.
C3_ConsumeWaitsForDeficit ==
    [][\A t \in Tasks :
         LET avail == Refilled(tokens, now - last_refill_time) IN
         /\ (tpc[t] = "consume" /\ tpc'[t] = "tpm_sleep")
               => /\ tunits[t] > avail
                  /\ trequired'[t] = tunits[t] - avail
                  /\ tsleep'[t] = now
         /\ (tpc[t] = "consume" /\ tpc'[t] \notin {"consume", "tpm_sleep"})
               => /\ tunits[t] <= avail
                  /\ tokens' = avail - tunits[t]
                  /\ now' = now
         /\ (tpc[t] = "tpm_sleep" /\ tpc'[t] # "tpm_sleep")
               => /\ (now - tsleep[t]) * refill_rate >= trequired[t]
                  /\ tokens' = avail - tunits[t]
      ]_vars

\* C3 witness: a task has come out of consume after sleeping for a deficit,
\* and another call has gone through consume without any deficit.
C3_Witness ==
    /\ \E t \in Tasks : tpc[t] = "rpm_sleep" /\ trequired[t] > 0
    /\ \E t \in Tasks : tpc[t] \in {"rpm_sleep", "calling"}
                        /\ tunits[t] > 0 /\ trequired[t] = 0

\* C17: every _call_gemini_async call returns a text to its caller and
\* raises nothing, whatever cost estimation and the external call did: the
\* response's text when there was one, the empty text for a blocked prompt,
\* a response without text, or a transport or service error.
C17_GenerateNeverRaises ==
    (returned # NoReturn)
        => /\ returned.result \in {"text", ""}
           /\ (returned.result = "text") <=> (returned.outcome = "text")

\* C17 witness: a call whose cost estimation had failed and whose external
\* call then raised a service error has returned the empty text.
C17_Witness ==
    /\ returned.outcome = "error"
    /\ ~returned.limited
    /\ returned.result = ""

\* C18: a call that ended on a blocked prompt has made MaxAttempts (3)
\* attempts, with a backoff between them, and returned the empty text; a
\* call that ended on a response without text or on an unexpected error has
\* made one attempt only.
C18_BlockedPromptRetried ==
    /\ (returned.outcome = "blocked")
          => /\ returned.attempts = MaxAttempts
             /\ returned.result = ""
    /\ (returned.outcome \in {"no_text", "error"}) => returned.attempts = 1

\* C19: generate_content_async is invoked by a task only out of a completed
\* rpm wait of the same invocation, and that wait is entered only out of a
\* consume that has debited the prompt's cost.
C19_CallAfterConsumeAndWait ==
    [][\A t \in Tasks :
         /\ (tpc[t] # "calling" /\ tpc'[t] = "calling")
               => /\ tpc[t] = "rpm_sleep"
                  /\ tunits[t] > 0
                  /\ now - tsleep[t] >= rpm_delay
         /\ (tpc[t] # "rpm_sleep" /\ tpc'[t] = "rpm_sleep")
               => /\ tpc[t] \in {"consume", "tpm_sleep"}
                  /\ tokens' = Refilled(tokens, now - last_refill_time) - tunits[t]
      ]_vars

\* C20: consume calls on one limiter are atomic with respect to each other:
\* a task sleeping in consume holds the lock, at most one task is inside
\* consume, the bucket and its refill time change only in a step of the
\* task that is inside consume (or enters it with the lock free), and each
\* debit takes exactly the units of that task from the refilled bucket, so
\* what a sleeping call waits for is not taken by another call.
C20_ConsumeAtomic ==
    [][/\ \A t \in Tasks : (tpc[t] = "tpm_sleep") => lock = t
       /\ \A t \in Tasks :
            (lock = t /\ tpc'[t] = "tpm_sleep")
               => /\ tokens' = tokens
                  /\ last_refill_time' = last_refill_time
       /\ (tokens' # tokens \/ last_refill_time' # last_refill_time)
            => \E t \in Tasks :
                  /\ lock \in {NoTask, t}
                  /\ tpc[t] \in {"consume", "tpm_sleep"}
                  /\ tpc'[t] # tpc[t]
                  /\ \A u \in Tasks \ {t} : tpc'[u] = tpc[u]
                  /\ LET avail == Refilled(tokens, now - last_refill_time) IN
                     tokens' = IF tpc'[t] = "tpm_sleep" THEN avail
                               ELSE avail - tunits[t]
      ]_vars

\* C20 witness: a task sleeps in consume for its deficit while another task
\* has reached consume and is kept out, and time has passed since the sleep
\* began.
C20_Witness ==
    \E t, u \in Tasks :
        /\ tpc[t] = "tpm_sleep"
        /\ lock = t
        /\ tpc[u] = "consume"
        /\ now > tsleep[t]

\* ------------------------------------------------------------------------
\* Claims about the pipeline (checked under Spec)
\* ------------------------------------------------------------------------

\* C4: at every point of a run, every sha that is in the ledger (in memory
\* or in the state file) and was not in it when the run started is the sha
\* of an event whose publish succeeded in this run.
C4_LedgerOnlyPublished ==
    \A s \in (processed_shas \cup stateFile) \ thisRun.ledger0 :
        s \in thisRun.published

\* C5: at the end of a run, no event whose subject matches the ignore
\* marker is in the ledger, unless it was there when the run started.
C5_IgnoredNotInLedger ==
    pc = "done" =>
        \A k \in 1..Len(commits) :
            (IsIgnored(commits[k]) /\ commits[k].sha \notin thisRun.ledger0)
                => commits[k].sha \notin (processed_shas \cup stateFile)

\* C6: when the publish of an event has failed, the ledger (in memory and
\* on file) and the cache are what they were when that event was reached,
\* until the next event is reached.
C6_PublishFailureLeavesState ==
    (atEvent.pos # 0 /\ outcome[atEvent.pos] = "PUBLISH_FAILED")
        => /\ processed_shas = atEvent.ledger
           /\ stateFile = atEvent.file
           /\ cache = atEvent.cache

\* C6 witness: the publish of an event has failed and the loop is about to
\* reach the event after it.
C6_Witness ==
    /\ pc = "loop"
    /\ atEvent.pos # 0
    /\ outcome[atEvent.pos] = "PUBLISH_FAILED"
    /\ idx <= Len(commits_to_process)

\* C7: an event whose publish failed, or whose primary content came back
\* empty, in one run is taken through generation again in the next run over
\* the same commits (both fetches without failures).
C7_FailedEventRetried ==
    (run >= 2 /\ pc = "done" /\ thisRun.clean /\ prevRun.clean)
        => prevRun.failed \subseteq thisRun.generated

\* C8: for an event whose cache file exists when the loop reaches it, no
\* generation call, no limiter consume and no publish call is made, and the
\* ledger and the cache stay as they were, until the next event is reached.
C8_CachedEventNoCalls ==
    atEvent.hadFile
        => /\ atEvent.pos \notin (calls.gen \cup calls.consume \cup calls.publish)
           /\ pc \in {"loop", "export", "done"}
           /\ processed_shas = atEvent.ledger
           /\ stateFile = atEvent.file
           /\ cache = atEvent.cache

\* C8 witness: an event was reached with its cache file present, taken as a
\* cache hit, and its cached post is in the context.
C8_Witness ==
    /\ atEvent.hadFile
    /\ outcome[atEvent.pos] = "CACHE_HIT"
    /\ aggregated_context # <<>>

\* the posts of the first k events of the run that were published or found
\* in the cache, in input order
RECURSIVE ExpectedContext(_)
ExpectedContext(k) ==
    IF k = 0 THEN <<>>
    ELSE IF outcome[k] \in {"PUBLISHED", "CACHE_HIT"}
         THEN Append(ExpectedContext(k - 1),
                     <<ShortSha(commits_to_process[k].sha), primary[k]>>)
         ELSE ExpectedContext(k - 1)

\* C9: once events E1..Ek are handled, aggregated_context holds the primary
\* contents of exactly those of them that ended PUBLISHED or CACHE_HIT, in
\* input order, and this is the context the generation of E(k+1) is given.
C9_ContextOfPublishedAndCached ==
    /\ aggregated_context = ExpectedContext(idx - 1)
    /\ (atEvent.pos # 0 /\ atEvent.pos \in calls.gen)
          => passedContext = ExpectedContext(atEvent.pos - 1)

\* C9 witness: a generation was given a non-empty context although an
\* earlier event of the run was ignored, abandoned or failed to publish.
C9_Witness ==
    /\ atEvent.pos \in calls.gen
    /\ passedContext # <<>>
    /\ \E i \in 1..(atEvent.pos - 1) :
          outcome[i] \in {"SKIPPED_IGNORED", "ABANDONED", "PUBLISH_FAILED"}

\* C11: in a generation run (batch or incremental) the export trigger, the
\* wait and the deploy are invoked only if an event was published in the
\* run, and only once every event of the list has been handled; with no
\* event published none of them is invoked.
C11_ExportOnlyAfterPublish ==
    mode \in {"batch", "incremental"}
        => /\ (exportCalls # <<>>)
                 => /\ thisRun.published # {}
                    /\ idx > Len(commits_to_process)
                    /\ pc = "done"
           /\ (pc = "done" /\ thisRun.published = {}) => exportCalls = <<>>

\* C11 witness: a generation run has handled all its events, one of them
\* up to a failed publish, has gone through the export phase and has
\* invoked no collaborator.
C11_Witness ==
    /\ mode \in {"batch", "incremental"}
    /\ pc = "done"
    /\ commits_to_process # <<>>
    /\ idx > Len(commits_to_process)
    /\ \E i \in Positions : outcome[i] = "PUBLISH_FAILED"
    /\ exportCalls = <<>>

\* C12: when the processing of an event fails at some step, the run still
\* handles every later event of the list (a run never stops with events
\* left), and the cache files and ledger entries of the other events are
\* what they were when the failing event was reached.
C12_FailureIsolated ==
    /\ (mode # "export" /\ pc \in {"export", "done", "crashed"})
          => idx > Len(commits_to_process)
    /\ (atEvent.pos # 0
        /\ outcome[atEvent.pos] \in {"ABANDONED", "PUBLISH_FAILED"})
          => LET sha == commits_to_process[atEvent.pos].sha IN
             /\ \A s \in Shorts \ {ShortSha(sha)} : cache[s] = atEvent.cache[s]
             /\ processed_shas \ {sha} = atEvent.ledger \ {sha}
             /\ stateFile \ {sha} = atEvent.file \ {sha}

\* the subject (first line) of the event's message holds the ignore marker,
\* in whatever case
MatchesIgnoreMarker(e) ==
    \E k \in 1..Len(e.message[1]) : e.message[1][k] \in {"ignore", "IGNORE"}

\* C13: for an event whose message subject matches the ignore marker, no
\* generation call and no publish call is made, and the cache, the
\* aggregated context and the ledger stay what they were when the event was
\* reached, until the next event is reached.
C13_IgnoredEventNoEffect ==
    (atEvent.pos # 0 /\ MatchesIgnoreMarker(commits_to_process[atEvent.pos]))
        => /\ outcome[atEvent.pos] = "SKIPPED_IGNORED"
           /\ atEvent.pos \notin (calls.gen \cup calls.consume \cup calls.publish)
           /\ pc \in {"loop", "export", "done"}
           /\ cache = atEvent.cache
           /\ aggregated_context = atEvent.context
           /\ processed_shas = atEvent.ledger
           /\ stateFile = atEvent.file

\* C13 witness: an event with the marker in its subject was skipped when the
\* context already held a post and the event's own cache file existed.
C13_Witness ==
    /\ atEvent.pos # 0
    /\ MatchesIgnoreMarker(commits_to_process[atEvent.pos])
    /\ outcome[atEvent.pos] = "SKIPPED_IGNORED"
    /\ atEvent.context # <<>>
    /\ atEvent.hadFile

\* C14: events are handled in input order and one at a time: the events
\* before the current one have reached their outcome, the events after it
\* have had no operation yet, and the title and summary sub-tasks of an
\* event are running only while that event waits for them, so none is left
\* running when the event's publish or the next event begins.
C14_OneEventAtATime ==
    /\ \A i \in 1..Len(commits_to_process) :
          /\ (i < idx) => outcome[i] # "none"
          /\ (i > idx) => /\ outcome[i] = "none"
                          /\ i \notin (calls.gen \cup calls.publish)
    /\ \A q \in pending : q[1] = idx /\ pc = "titling"

\* C14 witness: the second event of a run is being published after its
\* sub-tasks have finished, the first event having been taken through
\* generation and publish before it.
C14_Witness ==
    /\ pc = "publishing"
    /\ idx = 2
    /\ calls.publish = {1}
    /\ calls.gen = {1, 2}
    /\ pending = {}

\* C15: the ledger file is written once per success: every step that
\* changes the state file is the step in which an event's publish
\* succeeded, and it adds that event's sha; and when a publish succeeds the
\* event's sha is in the ledger and in the state file before the next event
\* is reached.
C15_LedgerWrittenPerSuccess ==
    [][/\ (stateFile' # stateFile)
            => /\ pc = "publishing"
               /\ outcome'[idx] = "PUBLISHED"
               /\ stateFile' = stateFile \cup {commits_to_process[idx].sha}
       /\ (pc = "publishing" /\ outcome'[idx] = "PUBLISHED")
            => /\ commits_to_process[idx].sha \in processed_shas'
               /\ commits_to_process[idx].sha \in stateFile'
      ]_vars

\* C16: a cache file is created or overwritten during a run only in the
\* step in which the publish of the event with that short sha succeeded,
\* and with that event's primary content; an empty generation or a failed
\* publish leaves every cache file as it was.
C16_CacheOnlyAfterPublish ==
    [][\A s \in Shorts :
         (cache'[s] # cache[s])
            => /\ pc = "publishing"
               /\ outcome'[idx] = "PUBLISHED"
               /\ s = ShortSha(commits_to_process[idx].sha)
               /\ cache'[s] = primary[idx]
      ]_vars

\* C16 witness: in one run an event was abandoned after an empty generation
\* and another failed to publish, and neither has a cache file.
C16_Witness ==
    /\ pc = "loop"
    /\ \E i, j \in 1..Len(commits_to_process) :
          /\ outcome[i] = "ABANDONED"
          /\ outcome[j] = "PUBLISH_FAILED"
          /\ cache[ShortSha(commits_to_process[i].sha)] = NoFile
          /\ cache[ShortSha(commits_to_process[j].sha)] = NoFile

\* ------------------------------------------------------------------------
\* Claims about the diff summarizer (checked under SpecDigest)
\* ------------------------------------------------------------------------

\* C21: _summarize_diff_async returns only once every per-file task has
\* finished, and the i-th section of what it returns is the section of the
\* i-th input file, whatever the order in which the tasks finished.
C21_DigestInInputOrder ==
    digest.returned
        => /\ \A i \in 1..Len(files_changed) : sstate[i] = "done"
           /\ Len(digest.sections) = Len(files_changed)
           /\ \A i \in 1..Len(files_changed) :
                 /\ digest.sections[i] # NoSection
                 /\ digest.sections[i].file = files_changed[i].filename

\* C21 witness: the digest was returned after a later file's task had
\* finished before an earlier file's.
C21_Witness ==
    /\ digest.returned
    /\ \E k \in 1..(Len(sorder) - 1) : sorder[k] > sorder[k + 1]

\* C30: for each file the generation client is called if and only if the
\* patch is longer than 1000 characters, and then exactly once, under the
\* 'summary' key; a file without patch gets the placeholder section and a
\* patch of at most 1000 characters is digested locally, both without any
\* call of the generation client (hence without limiter debit).
C30_CallOnlyForLargePatch ==
    \A i \in 1..Len(files_changed) :
        sstate[i] # "created"
            => LET patch == files_changed[i].patch IN
               /\ (patch > SummaryThreshold) <=> (Len(skeys[i]) = 1)
               /\ (patch > SummaryThreshold) <=> (skeys[i] = <<"summary">>)
               /\ (patch <= SummaryThreshold) => skeys[i] = <<>>
               /\ (sstate[i] = "done" /\ patch = 0)
                     => summaries[i].kind = "no_patch"
               /\ (sstate[i] = "done" /\ patch > 0 /\ patch <= SummaryThreshold)
                     => summaries[i].kind = "local"
               /\ (sstate[i] = "done" /\ patch > SummaryThreshold)
                     => summaries[i].kind = "summary"

\* C30 witness: a returned digest over a file without patch, a file whose
\* patch has exactly 1000 characters and a file with a longer patch.
C30_Witness ==
    /\ digest.returned
    /\ \E i, j, k \in 1..Len(files_changed) :
          /\ files_changed[i].patch = 0
          /\ files_changed[j].patch = SummaryThreshold
          /\ files_changed[k].patch > SummaryThreshold
          /\ skeys[i] = <<>> /\ skeys[j] = <<>> /\ skeys[k] = <<"summary">>

\* ------------------------------------------------------------------------
\* Claims about the pipeline, continued (checked under Spec)
\* ------------------------------------------------------------------------

\* C22: when a required configuration value is missing the run aborts at
\* start-up: no event is fetched, generated or published by it and neither
\* the ledger file nor the cache is written.
C22_MissingConfigAborts ==
    [][(missing' # NoVar)
          => /\ pc' = "aborted"
             /\ commits_to_process' = <<>>
             /\ calls' = NoCalls
             /\ \A i \in Positions : outcome'[i] = "none"
             /\ exportCalls' = <<>>
             /\ stateFile' = stateFile
             /\ cache' = cache]_vars

\* C22 witness: a second run aborted on an unset variable, the first one
\* having left a ledger file behind.
C22_Witness ==
    /\ pc = "aborted"
    /\ missing # NoVar
    /\ run = 2
    /\ stateFile # {}

C24_PublishReachesExternal ==
    \A i \in Positions :
        (outcome[i] \in {"PUBLISHED", "PUBLISH_FAILED"})
            => (i \in calls.publish /\ i \in calls.external)

\* C28: the title and the secondary-summary generation of an event start
\* only once its primary-content generation has returned non-empty text;
\* when the primary content comes back empty the event is abandoned with no
\* title call, no summary call, no publish call and no cache or ledger write.
C28_SubTasksAfterNonEmptyPrimary ==
    /\ [](\A i \in calls.sub :
             /\ i \in calls.gen
             /\ primary[i] \in GeneratedPosts
             /\ outcome[i] # "ABANDONED")
    /\ []((pc = "titling") => idx \in calls.sub)
    /\ [][(pc = "generating" /\ pc' # "titling")
            => /\ outcome'[idx] = "ABANDONED"
               /\ calls'.sub = calls.sub
               /\ calls'.publish = calls.publish
               /\ pending' = {}
               /\ cache' = cache
               /\ stateFile' = stateFile
               /\ processed_shas' = processed_shas]_vars

\* C28 witness: an event was abandoned on empty primary content after an
\* earlier event of the run had its title and summary generated.
C28_Witness ==
    /\ \E i \in Positions : outcome[i] = "ABANDONED" /\ i \notin calls.sub
    /\ calls.sub # {}

\* ------------------------------------------------------------------------
\* Claims about the limiter scenario (checked under SpecScenario)
\* ------------------------------------------------------------------------

\* call k of the scenario began at the moment call k - 1 returned
BackToBack(k) ==
    /\ k \in 2..Len(forced)
    /\ forced[k - 1].end # NoTime
    /\ forced[k].start = forced[k - 1].end

\* C23 as stated: on a full limiter with capacity 10, refill 10 per minute
\* and rpm 60, three consume(4) calls made one after the other return
\* without a forced wait and a fourth made immediately afterwards waits.
C23_ThreeThenWait ==
    (Len(forced) >= 3 /\ BackToBack(2) /\ BackToBack(3))
        => /\ \A k \in 1..3 : ~forced[k].waited
           /\ (Len(forced) >= 4 /\ BackToBack(4)) => forced[4].waited

\* C23 as amended: on that limiter two consume(4) calls made one after the
\* other return without a forced wait and a third made immediately
\* afterwards is forced to wait.
C23_TwoThenWait ==
    /\ Len(forced) >= 1 => ~forced[1].waited
    /\ (Len(forced) >= 2 /\ BackToBack(2)) => ~forced[2].waited
    /\ (Len(forced) >= 3 /\ BackToBack(2) /\ BackToBack(3))
          => forced[3].waited

\* C23 witness: the third of three calls made one after the other has
\* slept for the two tokens it lacked (twelve seconds) and returned.
C23_Witness ==
    /\ Len(forced) >= 3
    /\ BackToBack(2)
    /\ BackToBack(3)
    /\ forced[3].waited
    /\ forced[3].end = forced[3].start + 12

\* ------------------------------------------------------------------------
\* Claims about the deployer (checked under SpecDeploy)
\* ------------------------------------------------------------------------

\* the commands run so far, one entry per subprocess.run
Commands == [k \in 1..Len(gitlog) |-> gitlog[k].cmd]

\* the k-th subprocess.run was the last attempt of a command that failed
FailedFor(k) ==
    \/ gitlog[k].result = "FileNotFoundError"
    \/ gitlog[k].result = "CalledProcessError" /\ gitlog[k].attempt = GitAttempts

\* C26: when git status reports no changes after staging, deploy returns
\* true without running git commit or git push.
C26_NoChangesNoCommit ==
    \A k \in 1..Len(gitlog) :
        (gitlog[k].cmd = "status" /\ gitlog[k].result = "ok"
            /\ gitlog[k].out = "")
          => /\ dresult = "True"
             /\ k = Len(gitlog)
             /\ \A j \in 1..Len(gitlog) : gitlog[j].cmd \notin {"commit", "push"}

\* C26 witness: deploy has returned after a staging that was retried and a
\* status without output.
C26_Witness ==
    /\ dpc = "returned"
    /\ Len(gitlog) >= 1
    /\ gitlog[Len(gitlog)].cmd = "status"
    /\ gitlog[Len(gitlog)].out = ""
    /\ gitlog[Len(gitlog)].result = "ok"
    /\ \E j \in 1..Len(gitlog) :
          gitlog[j].cmd = "add" /\ gitlog[j].result = "CalledProcessError"

\* C27: with changes and every git command succeeding, deploy runs the
\* repository initialisation, add, status, commit and the force-push in
\* that order and returns true; push is never run unless commit succeeded;
\* deploy returns false when the initialisation or any git command fails.
C27_DeployOrder ==
    /\ (dpc = "returned"
          /\ (\A k \in 1..Len(gitlog) : gitlog[k].result = "ok")
          /\ (\E k \in 1..Len(gitlog) : gitlog[k].out # ""))
         => /\ dresult = "True"
            /\ Commands = (IF git_dir THEN <<"set_url", "checkout">>
                           ELSE <<"init", "remote_add", "checkout">>)
                          \o <<"add", "status", "commit", "push">>
    /\ \A k \in 1..Len(gitlog) :
          gitlog[k].cmd = "push"
            => \E j \in 1..(k - 1) :
                  gitlog[j].cmd = "commit" /\ gitlog[j].result = "ok"
    /\ (\E k \in 1..Len(gitlog) : FailedFor(k))
         => (dresult = "False" /\ dpc = "returned"
               /\ FailedFor(Len(gitlog)))

\* C27 witness: deploy returned true after set-url, checkout, add, status,
\* commit and push, each successful at once, in a directory that was a
\* repository already.
C27_Witness ==
    /\ dresult = "True"
    /\ git_dir
    /\ Len(gitlog) = 6
    /\ \A k \in 1..Len(gitlog) : gitlog[k].result = "ok"
    /\ gitlog[Len(gitlog)].cmd = "push"

\* ------------------------------------------------------------------------
\* Claims about termination of consume (checked under SpecLimiterLive)
\* ------------------------------------------------------------------------

\* the sleep of task t ends within the clock's range
DueWithinHorizon(t) ==
    tsleep[t] * refill_rate + trequired[t] <= MaxTime * refill_rate

\* C29: with a positive refill rate a consume call that has to sleep, be it
\* for more units than the bucket's capacity or after such a call has left
\* the bucket in deficit, returns after a finite wait: it does not block
\* forever and goes on to the rpm delay without raising.
C29_OversizeConsumeReturns ==
    \A t \in Tasks :
        (tpc[t] = "tpm_sleep" /\ DueWithinHorizon(t))
            ~> (tpc[t] \in {"rpm_sleep", "calling"} /\ lock # t)

\* C29 witness: a consume for more units than the capacity has slept and
\* returned, and so has a later consume of another task that found the
\* bucket in deficit.
C29_Witness ==
    \E t, u \in Tasks :
        /\ t # u
        /\ tunits[t] > capacity
        /\ trequired[t] > 0
        /\ tpc[t] = "rpm_sleep"
        /\ trequired[u] > 0
        /\ tpc[u] = "rpm_sleep"
        /\ trequired[u] > tunits[u]

\* ------------------------------------------------------------------------
\* Claims about the local digest (checked under SpecLocalDigest)
\* ------------------------------------------------------------------------

\* an added or removed line, a context line, a file-header marker line
Changed(line) == Len(line) >= 1 /\ line[1] \in {"+", "-"}
Context(line) == Len(line) >= 1 /\ line[1] = " "
FileHeader(line) ==
    Len(line) >= 3 /\ << line[1], line[2], line[3] >> \in
                         {<<"+", "+", "+">>, <<"-", "-", "-">>}

\* the positions of the patch whose lines qualify under Q, and the k-th
KthOf(Q, k) == CHOOSE i \in Q : Cardinality({j \in Q : j < i}) = k - 1

\* C31 as stated: the local digest is the patch's added, removed and
\* context lines, file-header marker lines excluded, in their original
\* order, cut to the first 10, with the ellipsis exactly when more than
\* 10 lines qualified.
C31_DigestOfChangedAndContext ==
    local_summary.returned
        => LET Q == {i \in 1..Len(patch_lines) :
                         (Changed(patch_lines[i]) \/ Context(patch_lines[i]))
                             /\ ~FileHeader(patch_lines[i])}
           IN /\ Len(local_summary.lines) = Min(Cardinality(Q), 10)
              /\ \A k \in 1..Len(local_summary.lines) :
                    local_summary.lines[k] = patch_lines[KthOf(Q, k)]
              /\ local_summary.ellipsis <=> (Cardinality(Q) > 10)

\* C31 as amended: the local digest is the patch's added and removed lines
\* (context lines are left out), file-header marker lines excluded, in
\* their original order, cut to the first 10, with the ellipsis exactly
\* when more than 10 lines qualified.
C31_DigestOfChanged ==
    local_summary.returned
        => LET Q == {i \in 1..Len(patch_lines) :
                         Changed(patch_lines[i]) /\ ~FileHeader(patch_lines[i])}
           IN /\ Len(local_summary.lines) = Min(Cardinality(Q), 10)
              /\ \A k \in 1..Len(local_summary.lines) :
                    local_summary.lines[k] = patch_lines[KthOf(Q, k)]
              /\ local_summary.ellipsis <=> (Cardinality(Q) > 10)

\* C31 witness: a patch with a header, a context and a removed line among
\* more than ten changed lines was digested, cut, and marked with the
\* ellipsis.
C31_Witness ==
    /\ local_summary.returned
    /\ local_summary.ellipsis
    /\ Len(local_summary.lines) = 10
    /\ \E i, j, k \in 1..Len(patch_lines) :
          /\ FileHeader(patch_lines[i])
          /\ Context(patch_lines[j])
          /\ patch_lines[k] = <<"-", "x">>

\* ------------------------------------------------------------------------
\* Claims about the pipeline, third part (checked under Spec)
\* ------------------------------------------------------------------------

\* C32: when the enrichment source is configured, an event goes on to the
\* generation with its note's content, or with empty content when it has no
\* note; the lookup of the note never fails the event nor aborts the run.
C32_NoteLookupNeverFails ==
    notionConfigured
        => /\ pc # "crashed"
           /\ \A i \in 1..(idx - 1) :
                 (i <= Len(commits_to_process)) => outcome[i] # "none"

\* ------------------------------------------------------------------------
\* Claims about the title (checked under SpecTitle)
\* ------------------------------------------------------------------------

\* a line with a character that is not a blank
NonBlank(t) == \E k \in 1..Len(t) : t[k] # " "

\* title is line t without the blanks around it
IsCoreOf(title, t) ==
    /\ title # <<>>
    /\ title[1] # " "
    /\ title[Len(title)] # " "
    /\ \E a \in 0..Len(t) :
          /\ a + Len(title) <= Len(t)
          /\ SubSeq(t, a + 1, a + Len(title)) = title
          /\ \A k \in 1..Len(t) :
                (k <= a \/ k > a + Len(title)) => t[k] = " "

\* C34: the title passed to publish is never empty: it is the first
\* non-blank line of the title response, or the fixed default title when
\* the response has no such line (the title generation returned empty
\* text); the publisher is called with it whatever the response was.
C34_TitleNeverEmpty ==
    /\ title_step # "gather"
         => /\ blog_post_title # <<>>
            /\ blog_post_title # NoTitle
            /\ IF \E k \in 1..Len(response_text) : NonBlank(response_text[k])
               THEN LET first == CHOOSE k \in 1..Len(response_text) :
                                    /\ NonBlank(response_text[k])
                                    /\ \A j \in 1..(k - 1) :
                                          ~NonBlank(response_text[j])
                    IN IsCoreOf(blog_post_title, response_text[first])
               ELSE blog_post_title = DefaultTitle
    /\ title_step = "called" => title_passed = blog_post_title

\* C34 witness: the publisher was called with the default title after a
\* title generation that returned the empty text.
C34_Witness ==
    /\ title_step = "called"
    /\ response_text = << <<>> >>
    /\ title_passed = DefaultTitle

\* the collaborators of the export phase in the order they were invoked
ExportNames == [k \in 1..Len(exportCalls) |-> exportCalls[k].call]

\* C35: in the export phase deploy is invoked only if no export trigger URL
\* is configured, or the trigger succeeded and the wait returned true; when
\* the trigger or the wait fails deploy is not invoked; trigger, wait and
\* deploy are each invoked at most once per run, in that order.
C35_DeployAfterExport ==
    /\ ExportNames \in {<<>>, <<"deploy">>, <<"trigger">>, <<"trigger", "wait">>,
                        <<"trigger", "wait", "deploy">>}
    /\ \A k \in 1..Len(exportCalls) :
          /\ exportCalls[k].call = "deploy"
               => \/ ~exportCalls[k].url
                  \/ /\ k = 3
                     /\ exportCalls[1].result = "True"
                     /\ exportCalls[2].result = "True"
          /\ (exportCalls[k].call \in {"trigger", "wait"}
                /\ exportCalls[k].result # "True")
               => \A j \in 1..Len(exportCalls) : exportCalls[j].call # "deploy"
          /\ exportCalls[k].call \in {"trigger", "wait"} => exportCalls[k].url

\* C35 witness: a run whose trigger succeeded and whose wait did not return
\* true has ended without a deploy.
C35_Witness ==
    /\ pc = "done"
    /\ ExportNames = <<"trigger", "wait">>
    /\ exportCalls[1].result = "True"
    /\ exportCalls[2].result \in {"False", "raised"}

\* ------------------------------------------------------------------------
\* Claims about publish_post and its caller (checked under SpecPublish)
\* ------------------------------------------------------------------------

\* C36: publish_post is called at most once per event; a call makes at most
\* 5 external attempts, each attempt but the first following an attempt that
\* raised an XML-RPC Fault, and RetryError comes only after the fifth; an
\* event of run_pipeline whose call gave no post id has ended in
\* PUBLISH_FAILED, after its single call, with the loop past it.
C36_PublishAtMostOnceFiveAttempts ==
    /\ \A i \in PubEvents : pub_invocations[i] <= 1
    /\ Len(pub_log) <= 5
    /\ \A k \in 1..(Len(pub_log) - 1) : pub_log[k] = "Fault"
    /\ \A i \in PubEvents :
          (/\ pub_results[i] = "RetryError"
           /\ \/ i = pub_idx /\ pub_pc = "ended"
              \/ i = pub_idx - 1 /\ pub_pc = "loop")
              => Len(pub_log) = 5
    /\ \A i \in PubEvents :
          (pub_caller = "run_pipeline" /\ i < pub_idx) =>
              /\ pub_invocations[i] = 1
              /\ (pub_results[i] # "post_id"
                      => pub_outcome[i] = "PUBLISH_FAILED")
    /\ \A i \in PubEvents :
          i > pub_idx => pub_invocations[i] = 0 /\ pub_outcome[i] = "none"

\* a call gave up after five Faults and its caller went on to the next event
C36_Witness ==
    /\ pub_idx = 2
    /\ pub_pc = "loop"
    /\ pub_results[1] = "RetryError"
    /\ pub_log = [k \in 1..5 |-> "Fault"]
    /\ pub_invocations[1] = 1

\* ------------------------------------------------------------------------
\* Claims about the ledger within a run (checked under Spec)
\* ------------------------------------------------------------------------

\* C37: no step of a run removes a sha from processed_shas, and whenever
\* the state file is written in a run, what is written holds every sha the
\* run loaded at startup and every sha added to the set before the write.
C37_LedgerOnlyGrows ==
    [][run' = run =>
          /\ processed_shas \subseteq processed_shas'
          /\ stateFile' # stateFile =>
                /\ thisRun.ledger0 \subseteq stateFile'
                /\ processed_shas \subseteq stateFile'
          /\ thisRun.ledger0 \subseteq stateFile']_vars

\* a run that loaded a non-empty ledger has fetched a commit that was not
\* in it and written the file
C37_Witness ==
    /\ run = 2
    /\ pc = "loop"
    /\ thisRun.ledger0 # {}
    /\ processed_shas \ thisRun.ledger0 # {}
    /\ stateFile = processed_shas

\* C38: in an incremental run no commit returned by the fetch has a sha
\* that was in the ledger loaded at startup, and no generation or publish
\* call is made for such a sha in that run; a batch fetch in which no
\* commit's details failed returns every commit, in the ledger or not.
C38_IncrementalSkipsLedger ==
    /\ [](mode = "incremental" =>
             /\ ShasOf(commits_to_process) \cap thisRun.ledger0 = {}
             /\ thisRun.generated \cap thisRun.ledger0 = {}
             /\ thisRun.published \cap thisRun.ledger0 = {}
             /\ \A i \in calls.gen \cup calls.publish :
                   commits_to_process[i].sha \notin thisRun.ledger0)
    /\ [][(pc = "fetch" /\ pc' # "fetch" /\ mode = "batch"
              /\ thisRun'.clean)
            => commits_to_process' = commits]_vars

\* an incremental run that loaded a non-empty ledger fetched a commit and
\* made a generation call for it, while commits of the ledger were left out
C38_Witness ==
    /\ mode = "incremental"
    /\ run = 2
    /\ thisRun.ledger0 # {}
    /\ calls.gen # {}
    /\ Len(commits_to_process) < Len(commits)

\* C39: a run never ends other than by run_pipeline returning, and when a
\* generation run has returned, every event of the fetched list has one of
\* the outcomes SKIPPED_IGNORED, CACHE_HIT, ABANDONED, PUBLISH_FAILED and
\* PUBLISHED.
C39_RunEndsWithOutcomes ==
    /\ pc # "crashed"
    /\ (pc = "done" /\ mode # "export") =>
          \A i \in 1..Len(commits_to_process) :
              outcome[i] \in {"SKIPPED_IGNORED", "CACHE_HIT", "ABANDONED",
                              "PUBLISH_FAILED", "PUBLISHED"}

\* ------------------------------------------------------------------------
\* Claims about the limiters of a Transformer (checked under SpecLimiters)
\* ------------------------------------------------------------------------

\* the tokens the calls made so far took from a bucket
RECURSIVE Debited(_, _)
Debited(seq, id) ==
    IF seq = <<>> THEN 0
    ELSE (IF Head(seq).bucket = id THEN Head(seq).units ELSE 0)
            + Debited(Tail(seq), id)

\* C40: there are as many limiters as distinct configured model names, one
\* for each; two calls that debit a bucket debit the same one exactly when
\* their model keys are configured with the same model name; and a bucket
\* holds its capacity less everything debited from it by any key.
C40_OneLimiterPerModelName ==
    /\ DOMAIN rate_limiters = {model_configs[k] : k \in ModelKeys}
    /\ \A a, b \in 1..Len(debits) :
          (debits[a].bucket # NoBucket /\ debits[b].bucket # NoBucket) =>
              ((model_configs[debits[a].key] = model_configs[debits[b].key])
                  <=> (debits[a].bucket = debits[b].bucket))
    /\ \A id \in DOMAIN rate_limiters :
          rate_limiters[id].tokens =
              rate_limiters[id].capacity - Debited(debits, id)

\* under the default configuration the blog and the linkedin key have each
\* debited the one bucket of their shared model, and the title key another
C40_Witness ==
    /\ model_configs = DefaultConfigs
    /\ \E a, b, c \in 1..Len(debits) :
          /\ debits[a].key = "blog"
          /\ debits[b].key = "linkedin"
          /\ debits[c].key = "title"
          /\ debits[a].bucket = "gemini-2.5-flash"
          /\ debits[b].bucket = "gemini-2.5-flash"
          /\ debits[c].bucket = "gemma-3-27b-it"
    /\ rate_limiters["gemini-2.5-flash"].tokens = 248000

====
